---- MODULE Spec2Model ----
(***************************************************************************)
(* State-machine model of the media-engine crate (packages/media-engine)   *)
(* and of NativeCapture of the screen-capture crate:                       *)
(* the host entry points of lib.rs, the session of engine.rs (the          *)
(* encode/publish thread, the audio forward thread), the capture channel   *)
(* of capture/wgc.rs, the encoder of encode/pipeline.rs and encode/mft.rs  *)
(* seen through encode_frame()/force_keyframe()/flush(), and the stop flag *)
(* of the transport of transport/livekit.rs, and the transport thread of   *)
(* transport/livekit.rs with the signaling channel of transport/signal.rs. *)
(*                                                                         *)
(* Specifications over the same variables:                                 *)
(*   Spec         one session, from the moment                             *)
(*                MediaEngine::start_screen_share has returned Ok, with    *)
(*                the host calling stop();                                 *)
(*   LiveSpec     Spec with the spawned thread scheduled fairly;           *)
(*   KeyframeSpec the running session with the host calling                *)
(*                force_keyframe();                                        *)
(*   CaptureSpec  the capture handler filling the channel of a running     *)
(*                session;                                                 *)
(*   PublishSpec  process_frame() applied repeatedly to drawn values of    *)
(*                total_frames and fps (the 32-bit wrap of the RTP clock); *)
(*   HostSpec     the ENGINE slot of lib.rs under overlapping host calls;  *)
(*   TransportSpec     the transport thread of LiveKitTransport::connect,  *)
(*                the signaling events it receives and the stop() called   *)
(*                on its handle;                                           *)
(*   LiveTransportSpec TransportSpec with the transport thread scheduled   *)
(*                fairly;                                                  *)
(*   LiveSessionSpec   the session thread and the transport thread         *)
(*                together, both scheduled fairly;                         *)
(*   StartSpec    MediaEngine::start_screen_share step by step, from the   *)
(*                capture start to the spawned encode thread;              *)
(*   BatchSpec    the transport thread entering its main loop with media   *)
(*                commands already queued, and send_video() called on its  *)
(*                handle;                                                  *)
(*   UrlSpec      build_ws_url of transport/signal.rs applied to drawn     *)
(*                server URLs and tokens;                                  *)
(*   SelectSpec   create_encoder of encode/mft.rs choosing a transform     *)
(*                among the ones MFTEnumEx returns;                        *)
(*   MftSpec      MftEncoder of encode/mft.rs under encode() and flush()   *)
(*                calls, with the event queue of an async transform;       *)
(*   UploadSpec   EncodePipeline::encode_frame of encode/pipeline.rs       *)
(*                uploading frames of changing size into the texture made  *)
(*                for the first one;                                       *)
(*   NativeSpec   NativeCapture of packages/screen-capture under start(),  *)
(*                get_frame() and stop() calls, with its capture thread.   *)
(***************************************************************************)
EXTENDS Integers, Sequences, FiniteSets, TLC

\* ------------------------------------------------------------------ bounds

\* Frames the capture backend delivers after the first one.
MaxFrames == 2
\* Frames the capture backend delivers after the first one in CaptureSpec.
MaxArrivals == 3
\* Frames the capture backend delivers after the first one in KeyframeSpec.
MaxKeyframeFrames == 2
\* Calls of MediaEngine::force_keyframe() by the host.
MaxForce == 2
\* Calls of MediaEngine::stop() by the host.
MaxStops == 2
\* Encoded units the encoder may hold back after an encode() call returns.
MaxLag == 1
\* Calls of pipeline.encode_frame() that return Err.
MaxErrors == 1
\* process_frame() applications in PublishSpec.
MaxProc == 3
\* Host calls of start_screen_share (HostSpec).
MaxCalls == 3
\* Host calls of stop_screen_share (HostSpec).
MaxHostStops == 1
\* SignalEvents the signaling channel delivers besides the JoinResponse.
MaxSignals == 2
\* Outputs of rtc.poll_output() other than Transmit and Timeout (TransportSpec).
MaxRtc == 2
\* Calls of LiveKitTransport::send_video, the queued frames of BatchSpec
\* included, below which the session makes a further call.
MaxSends == 1
\* Commands queued for the transport thread when it enters its main loop
\* (BatchSpec).
MaxQueued == 7
\* Transforms MFTEnumEx returns for one set of flags (SelectSpec).
MaxActivates == 2
\* Events the transform puts on its event queue (MftSpec).
MaxEvents == 4
\* GetEvent/GetType calls that return Err (MftSpec).
MaxEventErrors == 1
\* Calls of MftEncoder::encode (MftSpec).
MaxEncodes == 2
\* Calls of MftEncoder::flush, the one of Drop included (MftSpec).
MaxFlushes == 2
\* Calls of LiveKitTransport::stop (TransportSpec).
MaxTStops == 1

\* ------------------------------------------------------- program constants

\* mpsc::sync_channel::<CapturedFrame>(2)
CaptureCapacity == 2
\* 90_000 in process_frame: the RTP video clock
RtpClock == 90000
\* latest_frame = None
NoFrame == 0
\* cmds_processed > 5: the sixth command of a pass is the last
CmdBatchLimit == 6

\* ------------------------------------------------------------ pure helpers

Max(a, b) == IF a >= b THEN a ELSE b

\* A u32 is kept as its four bytes, least significant first, so that products
\* and sums stay exact and wrap at 2^32 as the machine's do.
Byte == 2^8

\* `x as u32` of a frame counter x (a u64; below 2^31 in this model)
AsU32(x) ==
    <<x % Byte, (x \div Byte) % Byte, (x \div (Byte * Byte)) % Byte,
      (x \div (Byte * Byte * Byte)) % Byte>>

\* u32::wrapping_mul: the low four bytes of the product
WrappingMul(a, b) ==
    LET p0 == a[1] * b[1]
        p1 == a[1] * b[2] + a[2] * b[1] + (p0 \div Byte)
        p2 == a[1] * b[3] + a[2] * b[2] + a[3] * b[1] + (p1 \div Byte)
        p3 == a[1] * b[4] + a[2] * b[3] + a[3] * b[2] + a[4] * b[1] + (p2 \div Byte)
    IN <<p0 % Byte, p1 % Byte, p2 % Byte, p3 % Byte>>

\* u32 / d for a small divisor d: long division from the top byte
DivSmall(a, d) ==
    LET q4 == a[4] \div d
        r4 == a[4] % d
        c3 == r4 * Byte + a[3]
        q3 == c3 \div d
        r3 == c3 % d
        c2 == r3 * Byte + a[2]
        q2 == c2 \div d
        r2 == c2 % d
        c1 == r2 * Byte + a[1]
        q1 == c1 \div d
    IN <<q1, q2, q3, q4>>

RtpTsMulFirst(total_frames, fps) ==
    DivSmall(WrappingMul(AsU32(total_frames), AsU32(RtpClock)), Max(fps, 1))

\* let ts = (*total_frames as u32).wrapping_mul(90_000 / config.fps.max(1));
RtpTs(total_frames, fps) ==
    WrappingMul(AsU32(total_frames), AsU32(RtpClock \div Max(fps, 1)))

ExtractKeyframeInverted(flags) == flags = 0

\* extract_packet: keyframe = MFSampleExtension_CleanPoint (or 0) != 0
ExtractKeyframe(flags) == flags /= 0

\* MediaEngine::is_running
IsRunning(flag) == ~flag

StopStoreToggle(flag) == ~flag

\* MediaEngine::stop: self.stop_flag.store(true, Relaxed)
StopStore(flag) == TRUE

\* x + 1 on a u32 kept as four bytes, wrapping at 2^32
WrappingAddOne(x) ==
    LET c1 == x[1] + 1
        c2 == x[2] + (c1 \div Byte)
        c3 == x[3] + (c2 \div Byte)
        c4 == x[4] + (c3 \div Byte)
    IN <<c1 % Byte, c2 % Byte, c3 % Byte, c4 % Byte>>

\* x + 1 does not fit a u32: the addition panics in a build with overflow
\* checks and wraps in one without
AddOneOverflows(x) == x = <<Byte - 1, Byte - 1, Byte - 1, Byte - 1>>

\* x & !1
ClearBit0(x) == <<x[1] - (x[1] % 2), x[2], x[3], x[4]>>

\* let width = (first_frame.width + 1) & !1; (the same for height)
EvenRound(x) == ClearBit0(WrappingAddOne(x))


\* ---------------------------------------------------------------- state

VARIABLES
    \* ScreenShareConfig
    fps, capture_audio,
    \* MediaEngine { cmd_tx, stop_flag }
    stop_flag, cmd_q,
    \* capture/wgc.rs: the sync_channel, the handler and its StopHandle
    frame_q, cap_state, cap_stop_flag, next_frame, cap_result, last_try_send,
    \* encode_publish_thread: position and locals
    pc, force_next_keyframe, latest_frame, total_frames,
    \* EncodePipeline / MftEncoder
    frame_count, enc_started, enc_is_async, enc_force, enc_inputs, enc_held,
    enc_errors,
    \* LiveKitTransport { cmd_tx, stop_flag } and TransportConfig { width, height }
    t_stop_flag, t_cmd_q, t_dims,
    \* transport_thread: position and locals, the signaling channel in both
    \* directions, the remote candidates of the peer connection
    t_pc, sig_rx, sig_open, sig_tx, pending_offer, connected, remote_cands,
    frames_sent, frames_dropped, track_dims,
    \* history of the transport: events delivered and handled, calls made
    sig_count, rtc_count, last_signal, offers_taken, answers_sent, pli_seen,
    ice_disc_seen, t_stop_calls, t_sends,
    \* MediaEngine::start_screen_share: position, result, the size of the
    \* first frame, the session's width and height, EncoderConfig { width, height }
    s_pc, s_result, first_dims, dims, enc_dims,
    \* audio_forward_thread and the AudioStopHandle
    audio_pc, audio_stop_flag,
    \* EngineCallbacks
    on_stopped_count, on_error_count,
    \* history: what was submitted with send_video, what process_frame was
    \* applied to, the host calls made so far
    sent, proc_count, last_proc, polled_since, called_since, force_since_send,
    stop_calls, force_calls, loop_exits, dequeued,
    \* lib.rs: the ENGINE slot, the start_screen_share calls in flight and
    \* the sessions they created
    ENGINE, call_pc, call_seen, call_sess, h_stop_flag, h_thread, host_stops,
    \* signal.rs: build_ws_url applied to (server_url, token)
    url_pc, url_in, url_out,
    \* mft.rs: create_encoder's choice of a transform
    sel_pc, sel_in, sel_out,
    \* mft.rs: MftEncoder { is_async, started }, the position inside
    \* encode()/flush(), the transform's event queue, the samples it holds and
    \* whether a drain is in progress
    m_pc, m_async, m_started, m_events, m_held, m_draining,
    \* history of the encoder: events emitted, GetEvent failures, calls made,
    \* NeedInput events taken by encode(), ProcessInput calls, drain commands,
    \* the last call begun and the units it has returned
    m_emitted, m_event_errs, m_encodes, m_flushes, m_need_taken, m_inputs,
    m_drains, m_last, m_units,
    \* pipeline.rs: the extent of EncodePipeline.bgra_texture, the D3D11_BOX of
    \* the last upload, the uploads made
    up_tex, up_box, up_count,
    \* screen-capture/lib.rs: NativeCapture { source_id, state.running,
    \* state.latest_frame, capture_thread }, the capture thread, the position
    \* of the host inside stop(), the result of the last start(), the calls
    \* made
    nc_source, nc_running, nc_frame, nc_handle, nc_thread, nc_pc, nc_result,
    nc_starts, nc_stops

configVars == <<fps, capture_audio>>
engineVars == <<stop_flag, cmd_q>>
captureVars == <<frame_q, cap_state, cap_stop_flag, next_frame, cap_result, last_try_send>>
threadVars == <<pc, force_next_keyframe, latest_frame, total_frames>>
encoderVars == <<frame_count, enc_started, enc_is_async, enc_force, enc_inputs, enc_held,
                 enc_errors>>
handleVars == <<t_stop_flag, t_cmd_q, t_dims>>
linkVars == <<t_pc, sig_rx, sig_open, sig_tx, pending_offer, connected, remote_cands,
              frames_sent, frames_dropped, track_dims>>
linkHistory == <<sig_count, rtc_count, last_signal, offers_taken, answers_sent,
                 pli_seen, ice_disc_seen, t_stop_calls, t_sends>>
transportVars == <<handleVars, linkVars, linkHistory>>
startVars == <<s_pc, s_result, first_dims, dims, enc_dims>>
audioVars == <<audio_pc, audio_stop_flag>>
callbackVars == <<on_stopped_count, on_error_count>>
historyVars == <<sent, proc_count, last_proc, polled_since, called_since,
                 force_since_send, stop_calls, force_calls, loop_exits, dequeued>>
hostVars == <<ENGINE, call_pc, call_seen, call_sess, h_stop_flag, h_thread,
              host_stops>>

urlVars == <<url_pc, url_in, url_out>>
\* the state of the functions that are applied on their own
selVars == <<sel_pc, sel_in, sel_out>>
mftVars == <<m_pc, m_async, m_started, m_events, m_held, m_draining>>
mftHistory == <<m_emitted, m_event_errs, m_encodes, m_flushes, m_need_taken,
                m_inputs, m_drains, m_last, m_units>>
upVars == <<up_tex, up_box, up_count>>
ncVars == <<nc_source, nc_running, nc_frame, nc_handle, nc_thread, nc_pc,
            nc_result, nc_starts, nc_stops>>
auxVars == <<urlVars, selVars, mftVars, mftHistory, upVars, ncVars>>

vars == <<configVars, engineVars, captureVars, threadVars, encoderVars,
          transportVars, audioVars, callbackVars, historyVars, hostVars,
          startVars, auxVars>>

\* fps of the session modelled by Spec
SessionFps == {30}
\* the first frame, received by MediaEngine::start_screen_share
FirstFrame == 1

Calls == 1 .. MaxCalls
\* a session is named after the call that created it
Sessions == Calls
NoSession == 0
\* no frame processed yet
NoProc == [requests |-> 0, polled |-> 0, called |-> 0, failed |-> FALSE, frame |-> 0]

\* the encode/publish thread is in its main loop
InLoop == pc \in {"head", "cmds", "drain", "wait", "process"}

\* the receivers owned by encode_publish_thread (frame_rx, cmd_rx) live
\* until the function returns
ThreadReturned == pc \in {"cleanup", "done"}

HostIdle ==
    /\ ENGINE = NoSession
    /\ call_pc = [c \in Calls |-> "idle"]
    /\ call_seen = [c \in Calls |-> NoSession]
    /\ call_sess = [c \in Calls |-> NoSession]
    /\ h_stop_flag = [s \in Sessions |-> FALSE]
    /\ h_thread = [s \in Sessions |-> "none"]
    /\ host_stops = 0

\* no URL given, none built
NoUrl == [valid |-> FALSE, scheme |-> "", path |-> "", query |-> <<>>, token |-> ""]
NoUrlOut == [result |-> "none", scheme |-> "", path |-> "", query |-> <<>>]

UrlIdle ==
    /\ url_pc = "none"
    /\ url_in = NoUrl
    /\ url_out = NoUrlOut

\* no encoders enumerated, none chosen
NoEncoders == [prefer_hardware |-> FALSE, sync |-> <<>>, hardware |-> <<>>]
NoChoice == [result |-> "none", pass |-> "none", is_async |-> FALSE]

SelectIdle ==
    /\ sel_pc = "none"
    /\ sel_in = NoEncoders
    /\ sel_out = NoChoice

\* an MftEncoder just built by MftEncoder::new: not started, nothing
\* submitted, no event emitted
MftFresh ==
    /\ m_started = FALSE
    /\ m_events = <<>>
    /\ m_held = 0
    /\ m_draining = FALSE
    /\ m_emitted = 0
    /\ m_event_errs = 0
    /\ m_encodes = 0
    /\ m_flushes = 0
    /\ m_need_taken = 0
    /\ m_inputs = 0
    /\ m_drains = 0
    /\ m_last = "none"
    /\ m_units = 0

\* no MftEncoder used on its own
MftIdle ==
    /\ m_pc = "none"
    /\ m_async = FALSE
    /\ MftFresh

\* width and height not given yet
NoDims == <<>>

\* no frame uploaded on its own
UploadIdle ==
    /\ up_tex = NoDims
    /\ up_box = NoDims
    /\ up_count = 0

\* no NativeCapture object
NativeIdle ==
    /\ nc_source = "none"
    /\ nc_running = FALSE
    /\ nc_frame = FALSE
    /\ nc_handle = FALSE
    /\ nc_thread = "none"
    /\ nc_pc = "none"
    /\ nc_result = "none"
    /\ nc_starts = 0
    /\ nc_stops = 0

\* no function applied on its own
AuxIdle == UrlIdle /\ SelectIdle /\ MftIdle /\ UploadIdle /\ NativeIdle

\* no SignalEvent handled yet
NoSignal == [kind |-> "none", target |-> 0]
\* the transport before LiveKitTransport::connect is called
TransportIdle ==
    /\ t_stop_flag = FALSE
    /\ t_cmd_q = <<>>
    /\ sig_rx = <<>>
    /\ sig_tx = <<>>
    /\ pending_offer = FALSE
    /\ connected = FALSE
    /\ remote_cands = 0
    /\ frames_sent = 0
    /\ frames_dropped = 0
    /\ track_dims = NoDims
    /\ sig_count = 0
    /\ rtc_count = 0
    /\ last_signal = NoSignal
    /\ offers_taken = 0
    /\ answers_sent = 0
    /\ pli_seen = 0
    /\ ice_disc_seen = FALSE
    /\ t_stop_calls = 0
    /\ t_sends = 0

\* The state when LiveKitTransport::connect returns Ok: the signaling
\* channel open, the transport thread spawned and waiting for the
\* JoinResponse.
TransportConnected ==
    /\ TransportIdle
    /\ t_pc = "join"
    /\ sig_open = TRUE

\* the size of the first frame of the session modelled by Spec: 1919 x 1079
SessionFirstDims == <<<<127, 7, 0, 0>>, <<55, 4, 0, 0>>>>

\* what a session starts from: nothing queued, encoded, sent or called yet
SessionFresh ==
    /\ stop_flag = FALSE
    /\ cmd_q = <<>>
    /\ frame_q = <<>>
    /\ cap_stop_flag = FALSE
    /\ cap_result = "Ok"
    /\ last_try_send = "none"
    /\ force_next_keyframe = FALSE
    /\ latest_frame = NoFrame
    /\ frame_count = 0
    /\ enc_started = FALSE
    /\ enc_force = FALSE
    /\ enc_inputs = 0
    /\ enc_held = <<>>
    /\ enc_errors = 0
    /\ audio_stop_flag = FALSE
    /\ on_stopped_count = 0
    /\ on_error_count = 0
    /\ sent = <<>>
    /\ proc_count = 0
    /\ last_proc = NoProc
    /\ polled_since = 0
    /\ called_since = 0
    /\ force_since_send = FALSE
    /\ stop_calls = 0
    /\ force_calls = 0
    /\ loop_exits = 0
    /\ dequeued = <<>>

SessionStarted ==
    /\ SessionFresh
    /\ cap_state = "running"
    /\ next_frame = FirstFrame + 1
    /\ TransportConnected
    /\ s_pc = "returned"
    /\ s_result = "Ok"
    /\ first_dims = SessionFirstDims
    /\ dims = <<EvenRound(first_dims[1]), EvenRound(first_dims[2])>>
    /\ t_dims = dims
    /\ audio_pc = IF capture_audio THEN "loop" ELSE "off"

\* The state when MediaEngine::start_screen_share returns Ok: the first frame
\* received, the transport thread spawned by LiveKitTransport::connect and
\* waiting for the JoinResponse, the encode/publish thread spawned.
Init ==
    /\ fps \in SessionFps
    /\ capture_audio \in BOOLEAN
    /\ SessionStarted
    /\ pc = "create"
    /\ total_frames = 0
    /\ enc_is_async = FALSE
    /\ enc_dims = NoDims
    /\ HostIdle
    /\ AuxIdle


\* ------------------------------------------------------- capture/wgc.rs

TrySendUnbounded(q, frame) == Append(q, frame)

\* self.tx.try_send(captured) on the sync_channel of capacity 2: the frame is
\* enqueued when there is room and returned to the caller (who drops it) when
\* the channel is full or the receiver is gone
TrySend(q, frame) ==
    IF ThreadReturned \/ Len(q) >= CaptureCapacity THEN q ELSE Append(q, frame)

\* what try_send returns: Ok, Err(Full) or Err(Disconnected)
TrySendResult(q) ==
    IF ThreadReturned THEN "disconnected"
    ELSE IF Len(q) >= CaptureCapacity THEN "full" ELSE "ok"

\* CaptureHandler::on_frame_arrived, called by the capture backend for every
\* frame.  A set stop flag ends the capture (capture_control.stop()); a failed
\* frame.buffer() returns Err to the backend, which halts the capture; else
\* the frame is handed to try_send and the handler returns Ok.
FrameArrives ==
    /\ cap_state = "running"
    /\ \E buffer_ok \in BOOLEAN :
         IF cap_stop_flag
         THEN /\ cap_state' = "closed"
              /\ cap_result' = "Ok"
              /\ last_try_send' = "none"
              /\ UNCHANGED <<frame_q, next_frame>>
         ELSE IF ~buffer_ok
         THEN /\ cap_state' = "closed"
              /\ cap_result' = "Err"
              /\ last_try_send' = "none"
              /\ UNCHANGED <<frame_q, next_frame>>
         ELSE /\ frame_q' = TrySend(frame_q, next_frame)
              /\ last_try_send' = TrySendResult(frame_q)
              /\ next_frame' = next_frame + 1
              /\ cap_result' = "Ok"
              /\ UNCHANGED cap_state
    /\ UNCHANGED <<cap_stop_flag, configVars, auxVars, startVars, engineVars, threadVars, encoderVars,
                   transportVars, audioVars, callbackVars, historyVars, hostVars>>

\* on_frame_arrived for the frames of Spec
OnFrameArrived ==
    /\ next_frame <= FirstFrame + MaxFrames
    /\ FrameArrives

\* CaptureHandler::on_closed: the captured item went away; the backend drops
\* the handler and with it the sending half of the channel
OnClosed ==
    /\ cap_state = "running"
    /\ cap_state' = "closed"
    /\ UNCHANGED <<frame_q, cap_stop_flag, next_frame, cap_result, last_try_send,
                   configVars, auxVars, startVars, engineVars, threadVars, encoderVars,
                   transportVars, audioVars, callbackVars, historyVars, hostVars>>

\* ------------------------------------------- encoder (pipeline.rs, mft.rs)

\* MFSampleExtension_CleanPoint of the sample encoded from an input: the
\* first input of a stream and an input after CODECAPI_AVEncVideoForceKeyFrame
\* are encoded as IDR; any other input may be (the encoder's GOP)
CleanPoints(first, forced) == IF first \/ forced THEN {1} ELSE {0, 1}

\* how many of the held units one encode() call returns: drain_output
\* collects until the transform needs more input, encode_async collects at
\* most one (HaveOutput) or none (NeedInput)
OutCounts(held, is_async) ==
    {k \in 0 .. Len(held) : /\ Len(held) - k <= MaxLag
                            /\ (is_async => k <= 1)}

StampPerPacket(packets, total, f, after_force) ==
    [i \in 1 .. Len(packets) |->
        [ts |-> RtpTs(total + i - 1, f), key |-> ExtractKeyframe(packets[i].cp),
         src |-> packets[i].src, idx |-> total, forced |-> packets[i].forced,
         pts |-> packets[i].pts,
         after_force |-> after_force /\ i = 1]]

\* for p in &packets { let ts = ..; transport.send_video(p.data, ts, p.keyframe) }
Stamp(packets, total, f, after_force) ==
    [i \in 1 .. Len(packets) |->
        [ts |-> RtpTs(total, f), key |-> ExtractKeyframe(packets[i].cp),
         src |-> packets[i].src, idx |-> total, forced |-> packets[i].forced,
         pts |-> packets[i].pts,
         after_force |-> after_force /\ i = 1]]

\* pipeline.encode_frame: a failure in convert_bgra_to_nv12, in
\* MftEncoder::encode before the transform took the input (start,
\* create_sample, ProcessInput), or in collect_one_output after it did; or
\* no failure
Outcomes(failed) ==
    IF failed < MaxErrors
    THEN {"convert_err", "input_err", "collect_err", "ok"}
    ELSE {"ok"}

\* transport.send_video(..) for each of k packets: cmd_tx.send(VideoFrame),
\* Err (ignored) when the transport thread has dropped cmd_rx
SendVideoAll(q, k) ==
    IF t_pc = "done" THEN q ELSE q \o [i \in 1 .. k |-> "VideoFrame"]

SendOnError(q) == Append(q, "VideoFrame")

\* Err(e) => { tracing::error!("Encode error: {e}"); }: the error is logged,
\* nothing is handed to the transport
LogAndDrop(q) == q

KeepFlag(flag) == flag

\* *force_keyframe = false, after pipeline.force_keyframe()
ClearFlag(flag) == FALSE

\* The closure process_frame of encode_publish_thread applied to one frame:
\* the pending force request is passed to the encoder and cleared, then
\* pipeline.encode_frame runs.  It fails in the conversion (before
\* frame_count is incremented) or in MftEncoder::encode (after), or returns
\* the packets the encoder releases, which are stamped and sent (`sent` keeps
\* what was handed to send_video; a unit keeps in pts the frame_count its
\* sample time was computed from, timestamp_100ns = frame_count * duration).
\* When
\* collect_one_output fails, the units taken from the transform in this call
\* are dropped: drain_output returns Err with `?` (sync), encode_async
\* breaks and returns Ok with what it has, which is nothing.
ProcessFrameBody(frame) ==
    LET request == force_next_keyframe
        force1 == enc_force \/ request
    IN
    /\ force_next_keyframe' = IF request THEN ClearFlag(force_next_keyframe)
                              ELSE force_next_keyframe
    /\ proc_count' = proc_count + 1
    /\ polled_since' = 0
    /\ called_since' = 0
    /\ \E outcome \in Outcomes(enc_errors) :
         /\ last_proc' = [requests |-> IF request THEN 1 ELSE 0,
                          polled |-> polled_since, called |-> called_since,
                          failed |-> outcome /= "ok", frame |-> frame]
         /\ IF outcome = "convert_err"
            THEN /\ enc_force' = force1
                 /\ enc_errors' = enc_errors + 1
                 /\ t_cmd_q' = LogAndDrop(t_cmd_q)
                 /\ UNCHANGED <<frame_count, enc_started, enc_inputs, enc_held,
                                total_frames, sent, force_since_send>>
            ELSE IF outcome = "input_err"
            THEN /\ enc_force' = force1
                 /\ enc_errors' = enc_errors + 1
                 /\ frame_count' = frame_count + 1
                 /\ enc_started' \in {enc_started, TRUE}
                 /\ t_cmd_q' = LogAndDrop(t_cmd_q)
                 /\ UNCHANGED <<enc_inputs, enc_held,
                                total_frames, sent, force_since_send>>
            ELSE IF outcome = "collect_err"
            THEN \E cp \in CleanPoints(enc_inputs = 0, force1) :
                   LET unit == [cp |-> cp, src |-> total_frames, forced |-> force1,
                                pts |-> frame_count]
                       held == Append(enc_held, unit)
                   IN \E k \in OutCounts(held, enc_is_async) :
                        /\ enc_force' = FALSE
                        /\ enc_errors' = enc_errors + 1
                        /\ enc_started' = TRUE
                        /\ enc_inputs' = enc_inputs + 1
                        /\ enc_held' = SubSeq(held, k + 1, Len(held))
                        /\ frame_count' = frame_count + 1
                        /\ total_frames' = IF enc_is_async THEN total_frames + 1
                                           ELSE total_frames
                        /\ t_cmd_q' = IF enc_is_async THEN SendVideoAll(t_cmd_q, 0)
                                       ELSE LogAndDrop(t_cmd_q)
                        /\ UNCHANGED <<sent, force_since_send>>
            ELSE \E cp \in CleanPoints(enc_inputs = 0, force1) :
                   LET unit == [cp |-> cp, src |-> total_frames, forced |-> force1,
                                pts |-> frame_count]
                       held == Append(enc_held, unit)
                   IN \E k \in OutCounts(held, enc_is_async) :
                        LET packets == SubSeq(held, 1, k)
                            stamped == Stamp(packets, total_frames, fps, force_since_send)
                        IN /\ enc_force' = FALSE
                           /\ UNCHANGED enc_errors
                           /\ enc_started' = TRUE
                           /\ enc_inputs' = enc_inputs + 1
                           /\ enc_held' = SubSeq(held, k + 1, Len(held))
                           /\ frame_count' = frame_count + 1
                           /\ sent' = sent \o stamped
                           /\ t_cmd_q' = SendVideoAll(t_cmd_q, k)
                           /\ force_since_send' = IF k > 0 THEN FALSE
                                                  ELSE force_since_send
                           /\ total_frames' = total_frames + 1


\* ------------------------------------------ engine.rs: encode_publish_thread

Range(q) == {q[i] : i \in 1 .. Len(q)}
Count(q, x) == Cardinality({i \in 1 .. Len(q) : q[i] = x})

PollForceIgnored(flag, cmds) == flag

\* EngineCommand::ForceKeyframe => force_next_keyframe = true
PollForce(flag, cmds) == flag \/ "ForceKeyframe" \in Range(cmds)

\* EngineCommand::Stop => stop_flag.store(true)
PollStop(flag, cmds) == flag \/ "Stop" \in Range(cmds)

\* EncodePipeline::new(enc_config) with enc_config.width/height the width and
\* height of the session: Ok, or Err => on_error and return (the return drops
\* frame_rx and cmd_rx and what they hold)
CreateEncoder ==
    /\ pc = "create"
    /\ \E created \in BOOLEAN, is_async \in BOOLEAN :
         IF created
         THEN /\ pc' = "first"
              /\ enc_is_async' = is_async
              /\ enc_dims' = dims
              /\ UNCHANGED <<on_error_count, frame_q, cmd_q>>
         ELSE /\ pc' = "cleanup"
              /\ on_error_count' = on_error_count + 1
              /\ frame_q' = <<>>
              /\ cmd_q' = <<>>
              /\ UNCHANGED <<enc_is_async, enc_dims>>
    /\ UNCHANGED <<force_next_keyframe, latest_frame, total_frames, frame_count,
                   enc_started, enc_force, enc_inputs, enc_held, enc_errors,
                   on_stopped_count,
                   stop_flag, cap_state, cap_stop_flag, next_frame, cap_result,
                   last_try_send, s_pc, s_result, first_dims, dims,
                   configVars, auxVars, transportVars, audioVars,
                   historyVars, hostVars>>

\* "Process first frame": process_frame(&first_frame, ..) before the loop
ProcessFirstFrame ==
    /\ pc = "first"
    /\ ProcessFrameBody(FirstFrame)
    /\ pc' = "head"
    /\ UNCHANGED <<latest_frame, enc_is_async, t_stop_flag, t_dims, linkVars, linkHistory,
                   stop_calls, force_calls, loop_exits, dequeued,
                   configVars, auxVars, startVars, engineVars, captureVars, audioVars, callbackVars,
                   hostVars>>

\* loop head: if stop_flag.load() { break }
LoopHead ==
    /\ pc = "head"
    /\ IF stop_flag
       THEN pc' = "flush" /\ loop_exits' = loop_exits + 1
       ELSE pc' = "cmds" /\ UNCHANGED loop_exits
    /\ UNCHANGED <<force_next_keyframe, latest_frame, total_frames,
                   sent, proc_count, last_proc, polled_since, called_since,
                   force_since_send, stop_calls, force_calls, dequeued,
                   configVars, auxVars, startVars, engineVars, captureVars, encoderVars, transportVars,
                   audioVars, callbackVars, hostVars>>

\* while let Ok(cmd) = cmd_rx.try_recv() { .. }, then the second
\* if stop_flag.load() { break }
PollCommands ==
    /\ pc = "cmds"
    /\ force_next_keyframe' = PollForce(force_next_keyframe, cmd_q)
    /\ polled_since' = polled_since + Count(cmd_q, "ForceKeyframe")
    /\ stop_flag' = PollStop(stop_flag, cmd_q)
    /\ cmd_q' = <<>>
    /\ IF stop_flag'
       THEN pc' = "flush" /\ loop_exits' = loop_exits + 1
       ELSE pc' = "drain" /\ UNCHANGED loop_exits
    /\ UNCHANGED <<latest_frame, total_frames,
                   sent, proc_count, last_proc, called_since, force_since_send,
                   stop_calls, force_calls, dequeued,
                   configVars, auxVars, startVars, captureVars, encoderVars, transportVars,
                   audioVars, callbackVars, hostVars>>

KeepFirst(latest, frame) == IF latest = NoFrame THEN frame ELSE latest

\* Ok(frame) => { latest_frame = Some(frame); }: the frame held before is
\* dropped
KeepLatest(latest, frame) == frame

\* one frame_rx.try_recv() of the drain loop: Ok(frame) replaces latest_frame
\* and the loop goes on; Empty ends it; Disconnected sets the stop flag and
\* ends it
DrainCapture ==
    /\ pc = "drain"
    /\ IF frame_q /= <<>>
       THEN /\ latest_frame' = KeepLatest(latest_frame, Head(frame_q))
            /\ frame_q' = Tail(frame_q)
            /\ dequeued' = Append(dequeued, Head(frame_q))
            /\ UNCHANGED <<pc, stop_flag>>
       ELSE /\ pc' = "wait"
            /\ stop_flag' = (stop_flag \/ cap_state = "closed")
            /\ UNCHANGED <<latest_frame, frame_q, dequeued>>
    /\ UNCHANGED <<cmd_q, force_next_keyframe, total_frames,
                   cap_state, cap_stop_flag, next_frame, cap_result, last_try_send,
                   sent, proc_count, last_proc, polled_since, called_since,
                   force_since_send, stop_calls, force_calls, loop_exits,
                   configVars, auxVars, startVars, encoderVars, transportVars, audioVars,
                   callbackVars, hostVars>>

\* if latest_frame.is_none() && !stop_flag { frame_rx.recv_timeout(100 ms) }:
\* Ok(frame), Timeout => continue, Disconnected => break
WaitFrame ==
    /\ pc = "wait"
    /\ IF latest_frame = NoFrame /\ ~stop_flag
       THEN IF frame_q /= <<>>
            THEN /\ latest_frame' = Head(frame_q)
                 /\ frame_q' = Tail(frame_q)
                 /\ dequeued' = Append(dequeued, Head(frame_q))
                 /\ pc' = "process"
                 /\ UNCHANGED loop_exits
            ELSE IF cap_state = "closed"
            THEN /\ pc' = "flush"
                 /\ loop_exits' = loop_exits + 1
                 /\ UNCHANGED <<latest_frame, frame_q, dequeued>>
            ELSE /\ pc' = "head"
                 /\ UNCHANGED <<latest_frame, frame_q, loop_exits, dequeued>>
       ELSE /\ pc' = "process"
            /\ UNCHANGED <<latest_frame, frame_q, loop_exits, dequeued>>
    /\ UNCHANGED <<force_next_keyframe, total_frames,
                   cap_state, cap_stop_flag, next_frame, cap_result, last_try_send,
                   sent, proc_count, last_proc, polled_since, called_since,
                   force_since_send, stop_calls, force_calls,
                   configVars, auxVars, startVars, engineVars, encoderVars, transportVars, audioVars,
                   callbackVars, hostVars>>

\* if let Some(frame) = latest_frame { process_frame(&frame, ..) }
ProcessLatest ==
    /\ pc = "process"
    /\ IF latest_frame /= NoFrame
       THEN ProcessFrameBody(latest_frame)
       ELSE UNCHANGED <<force_next_keyframe, total_frames, encoderVars,
                        sent, proc_count, last_proc, polled_since, called_since,
                        force_since_send, t_cmd_q>>
    /\ latest_frame' = NoFrame
    /\ dequeued' = <<>>
    /\ pc' = "head"
    /\ UNCHANGED <<enc_is_async, t_stop_flag, t_dims, linkVars, linkHistory,
                   stop_calls, force_calls, loop_exits,
                   configVars, auxVars, startVars, engineVars, captureVars, audioVars, callbackVars,
                   hostVars>>

\* after the loop: let _ = pipeline.flush() (MftEncoder::flush: nothing when
\* not started, else the drain command and the remaining output, which the
\* caller drops)
FlushEncoder ==
    /\ pc = "flush"
    /\ enc_held' = <<>>
    /\ pc' = "tstop"
    /\ UNCHANGED <<force_next_keyframe, latest_frame, total_frames, frame_count,
                   enc_started, enc_is_async, enc_force, enc_inputs, enc_errors,
                   configVars, auxVars, startVars, engineVars, captureVars, transportVars, audioVars,
                   callbackVars, historyVars, hostVars>>

\* LiveKitTransport::stop: self.stop_flag.store(true);
\* let _ = self.cmd_tx.send(TransportCommand::Stop) (Err, ignored, when the
\* transport thread has returned and dropped cmd_rx)
LiveKitStop ==
    /\ t_stop_flag' = TRUE
    /\ t_cmd_q' = IF t_pc = "done" THEN t_cmd_q ELSE Append(t_cmd_q, "Stop")
    /\ t_stop_calls' = t_stop_calls + 1
    /\ UNCHANGED <<t_dims, linkVars, sig_count, rtc_count, last_signal,
                   offers_taken, answers_sent, pli_seen, ice_disc_seen, t_sends>>

\* transport.stop() after the loop
TransportStop ==
    /\ pc = "tstop"
    /\ LiveKitStop
    /\ pc' = "cb"
    /\ UNCHANGED <<force_next_keyframe, latest_frame, total_frames,
                   configVars, auxVars, startVars, engineVars, captureVars, encoderVars, audioVars,
                   callbackVars, historyVars, hostVars>>

\* if let Some(ref cb) = callbacks.on_stopped { cb() }, the last statement:
\* the function returns and drops frame_rx and cmd_rx and what they hold
OnStopped ==
    /\ pc = "cb"
    /\ on_stopped_count' = on_stopped_count + 1
    /\ pc' = "cleanup"
    /\ frame_q' = <<>>
    /\ cmd_q' = <<>>
    /\ UNCHANGED <<force_next_keyframe, latest_frame, total_frames, on_error_count,
                   stop_flag, cap_state, cap_stop_flag, next_frame, cap_result,
                   last_try_send,
                   configVars, auxVars, startVars, encoderVars, transportVars,
                   audioVars, historyVars, hostVars>>

\* the spawned closure after encode_publish_thread returned:
\* cap_stop.stop(); audio_stop.stop()
Cleanup ==
    /\ pc = "cleanup"
    /\ cap_stop_flag' = TRUE
    /\ audio_stop_flag' = (audio_stop_flag \/ capture_audio)
    /\ pc' = "done"
    /\ UNCHANGED <<force_next_keyframe, latest_frame, total_frames,
                   frame_q, cap_state, next_frame, cap_result, last_try_send,
                   audio_pc,
                   configVars, auxVars, startVars, engineVars, encoderVars, transportVars,
                   callbackVars, historyVars, hostVars>>


\* --------------------------------------------------- engine.rs: MediaEngine

\* MediaEngine::stop: stop_flag.store(true); let _ = cmd_tx.send(Stop)
Stop ==
    /\ stop_calls < MaxStops
    /\ stop_flag' = StopStore(stop_flag)
    /\ cmd_q' = IF ThreadReturned THEN cmd_q ELSE Append(cmd_q, "Stop")
    /\ stop_calls' = stop_calls + 1
    /\ UNCHANGED <<sent, proc_count, last_proc, polled_since, called_since,
                   force_since_send, force_calls, loop_exits, dequeued,
                   configVars, auxVars, startVars, captureVars, threadVars, encoderVars, transportVars,
                   audioVars, callbackVars, hostVars>>

\* MediaEngine::force_keyframe: cmd_tx.send(ForceKeyframe), Err when the
\* engine thread has returned
ForceKeyframe ==
    /\ force_calls < MaxForce
    /\ force_calls' = force_calls + 1
    /\ IF ThreadReturned
       THEN UNCHANGED <<cmd_q, called_since, force_since_send>>
       ELSE /\ cmd_q' = Append(cmd_q, "ForceKeyframe")
            /\ called_since' = called_since + 1
            /\ force_since_send' = (force_since_send \/ IsRunning(stop_flag))
    /\ UNCHANGED <<stop_flag, sent, proc_count, last_proc, polled_since, stop_calls,
                   loop_exits, dequeued,
                   configVars, auxVars, startVars, captureVars, threadVars, encoderVars, transportVars,
                   audioVars, callbackVars, hostVars>>

\* -------------------------------------- engine.rs: audio_forward_thread

\* while !stop_flag { match audio_rx.recv_timeout(100 ms) {
\*   Ok(packet) => transport.send_audio(..), Timeout => continue, Err => break } }
\* The audio channel is disconnected once the audio capture thread, told to
\* stop by the AudioStopHandle, has returned.  A packet received is handed to
\* the transport and leaves the state of the session as it is.
AudioForward ==
    /\ audio_pc = "loop"
    /\ audio_pc' = IF stop_flag \/ audio_stop_flag THEN "done" ELSE audio_pc
    /\ UNCHANGED <<audio_stop_flag, transportVars,
                   configVars, auxVars, startVars, engineVars, captureVars, threadVars, encoderVars,
                   callbackVars, historyVars, hostVars>>

\* ------------------------------------------------------------ Spec

Next ==
    \/ OnFrameArrived
    \/ OnClosed
    \/ CreateEncoder
    \/ ProcessFirstFrame
    \/ LoopHead
    \/ PollCommands
    \/ DrainCapture
    \/ WaitFrame
    \/ ProcessLatest
    \/ FlushEncoder
    \/ TransportStop
    \/ OnStopped
    \/ Cleanup
    \/ Stop
    \/ AudioForward

Spec == Init /\ [][Next]_vars

\* the steps of the spawned thread: encode_publish_thread and the cleanup
ThreadStep ==
    \/ CreateEncoder
    \/ ProcessFirstFrame
    \/ LoopHead
    \/ PollCommands
    \/ DrainCapture
    \/ WaitFrame
    \/ ProcessLatest
    \/ FlushEncoder
    \/ TransportStop
    \/ OnStopped
    \/ Cleanup

\* the operating system schedules the spawned thread: a thread that can take
\* a step eventually takes it
LiveSpec == Init /\ [][Next]_vars /\ WF_vars(ThreadStep)

\* ------------------------------------------------------- KeyframeSpec

\* The running session once EncodePipeline::new has returned Ok, before the
\* first frame is processed.
InitKeyframe ==
    /\ fps \in SessionFps
    /\ capture_audio = FALSE
    /\ SessionStarted
    /\ pc = "first"
    /\ total_frames = 0
    /\ enc_is_async \in BOOLEAN
    /\ enc_dims = dims
    /\ HostIdle
    /\ AuxIdle

\* the capture and the loop of a session that is not being stopped, with the
\* host calling force_keyframe()
\* on_frame_arrived for the frames of KeyframeSpec
KeyframeFrameArrived ==
    /\ next_frame <= FirstFrame + MaxKeyframeFrames
    /\ FrameArrives

NextKeyframe ==
    \/ KeyframeFrameArrived
    \/ ProcessFirstFrame
    \/ LoopHead
    \/ PollCommands
    \/ DrainCapture
    \/ WaitFrame
    \/ ProcessLatest
    \/ ForceKeyframe

KeyframeSpec == InitKeyframe /\ [][NextKeyframe]_vars

\* -------------------------------------------------------- CaptureSpec

\* the capture handler and the loop of a running session that the host
\* leaves alone: the frames arrive faster than the loop takes them
CaptureFrameArrived ==
    /\ next_frame <= FirstFrame + MaxArrivals
    /\ FrameArrives

NextCapture ==
    \/ CaptureFrameArrived
    \/ OnClosed
    \/ ProcessFirstFrame
    \/ LoopHead
    \/ PollCommands
    \/ DrainCapture
    \/ WaitFrame
    \/ ProcessLatest

CaptureSpec == InitKeyframe /\ [][NextCapture]_vars

\* -------------------------------------------------------- PublishSpec

\* config.fps values: 90000/fps is exact for 30 and 60, and 1 gives the
\* largest step
PublishFps == {1, 30, 60}

\* values of total_frames: the start of a session, and two frames before the
\* product with 90000/fps passes 2^32 for fps = 1, 30, 60
PublishStarts == {0, 47720, 1431654, 2863310}

InitPublish ==
    /\ fps \in PublishFps
    /\ capture_audio = FALSE
    /\ SessionStarted
    /\ pc = "publish"
    /\ total_frames \in PublishStarts
    /\ enc_is_async \in BOOLEAN
    /\ enc_dims = dims
    /\ HostIdle
    /\ AuxIdle

\* process_frame(&frame, ..) applied to the next frame
ProcessFrame ==
    /\ pc = "publish"
    /\ proc_count < MaxProc
    /\ ProcessFrameBody(FirstFrame + proc_count)
    /\ UNCHANGED <<pc, latest_frame, enc_is_async, t_stop_flag, t_dims, linkVars, linkHistory,
                   stop_calls, force_calls, loop_exits, dequeued,
                   configVars, auxVars, startVars, engineVars, captureVars, audioVars, callbackVars,
                   hostVars>>

PublishSpec == InitPublish /\ [][ProcessFrame]_vars

\* ------------------------------------------------------ HostSpec (lib.rs)

\* start_screen_share, "Check if already running": under the ENGINE lock,
\* Err("Screen share already running") when the slot holds an engine whose
\* is_running() is true; the lock is released before the engine is started
HostStartCheck(c) ==
    /\ call_pc[c] = "idle"
    /\ call_pc' = [call_pc EXCEPT ![c] =
                      IF ENGINE /= NoSession /\ IsRunning(h_stop_flag[ENGINE])
                      THEN "rejected" ELSE "checked"]
    /\ call_seen' = [call_seen EXCEPT ![c] = ENGINE]
    /\ UNCHANGED <<ENGINE, call_sess, h_stop_flag, h_thread, host_stops,
                   configVars, auxVars, startVars, engineVars, captureVars, threadVars, encoderVars,
                   transportVars, audioVars, callbackVars, historyVars>>

\* MediaEngine::start_screen_share(screen_config, callbacks).await: Ok(engine)
\* with the threads of a new session spawned, or Err returned with `?`
HostStartEngine(c) ==
    /\ call_pc[c] = "checked"
    /\ \E started \in BOOLEAN :
         IF started
         THEN /\ call_pc' = [call_pc EXCEPT ![c] = "started"]
              /\ call_sess' = [call_sess EXCEPT ![c] = c]
              /\ h_thread' = [h_thread EXCEPT ![c] = "live"]
         ELSE /\ call_pc' = [call_pc EXCEPT ![c] = "failed"]
              /\ UNCHANGED <<call_sess, h_thread>>
    /\ UNCHANGED <<ENGINE, call_seen, h_stop_flag, host_stops,
                   configVars, auxVars, startVars, engineVars, captureVars, threadVars, encoderVars,
                   transportVars, audioVars, callbackVars, historyVars>>

\* let mut guard = ENGINE.lock().unwrap(); *guard = Some(engine); Ok(())
\* The engine the slot held is dropped, its threads are not stopped.
HostStartStore(c) ==
    /\ call_pc[c] = "started"
    /\ ENGINE' = call_sess[c]
    /\ call_pc' = [call_pc EXCEPT ![c] = "ok"]
    /\ UNCHANGED <<call_seen, call_sess, h_stop_flag, h_thread, host_stops,
                   configVars, auxVars, startVars, engineVars, captureVars, threadVars, encoderVars,
                   transportVars, audioVars, callbackVars, historyVars>>

\* stop_screen_share: Some(e) => e.stop(), None => Err("No screen share running")
HostStop ==
    /\ host_stops < MaxHostStops
    /\ host_stops' = host_stops + 1
    /\ IF ENGINE /= NoSession
       THEN h_stop_flag' = [h_stop_flag EXCEPT ![ENGINE] = StopStore(h_stop_flag[ENGINE])]
       ELSE UNCHANGED h_stop_flag
    /\ UNCHANGED <<ENGINE, call_pc, call_seen, call_sess, h_thread,
                   configVars, auxVars, startVars, engineVars, captureVars, threadVars, encoderVars,
                   transportVars, audioVars, callbackVars, historyVars>>

\* the encode/publish thread of a session returns: after it saw the stop
\* flag, or by itself (capture channel disconnected in the drain loop, which
\* stores the stop flag; disconnected in recv_timeout or encoder creation
\* failed, which do not)
HostThreadExit(s) ==
    /\ h_thread[s] = "live"
    /\ h_thread' = [h_thread EXCEPT ![s] = "exited"]
    /\ \E stores \in BOOLEAN :
         h_stop_flag' = [h_stop_flag EXCEPT ![s] = h_stop_flag[s] \/ stores]
    /\ UNCHANGED <<ENGINE, call_pc, call_seen, call_sess, host_stops,
                   configVars, auxVars, startVars, engineVars, captureVars, threadVars, encoderVars,
                   transportVars, audioVars, callbackVars, historyVars>>

NextHost ==
    \/ \E c \in Calls : HostStartCheck(c)
    \/ \E c \in Calls : HostStartEngine(c)
    \/ \E c \in Calls : HostStartStore(c)
    \/ HostStop
    \/ \E s \in Sessions : HostThreadExit(s)

HostSpec == Init /\ [][NextHost]_vars

\* ------------------------------- transport/signal.rs, transport/livekit.rs

\* SignalEvent, with the target of a TrickleRequest (0 publisher, 1 subscriber)
SignalEvents ==
    {[kind |-> k, target |-> 0] :
        k \in {"Join", "Offer", "Answer", "TrackPublished", "Leave"}}
    \cup {[kind |-> "Trickle", target |-> t] : t \in {0, 1}}

\* the transport thread has returned and dropped signal_rx and cmd_rx
TransportReturned == t_pc = "done"

\* the server answers a connection with one JoinResponse: none was forwarded
\* yet
JoinNotSent ==
    /\ t_pc = "join"
    /\ \A i \in 1 .. Len(sig_rx) : sig_rx[i].kind /= "Join"

\* signal_recv_loop: a SignalResponse read from the WebSocket is forwarded as
\* a SignalEvent; the loop ends when the receiver is gone
SignalArrives(e) ==
    /\ sig_open
    /\ t_pc /= "none"
    /\ IF e.kind = "Join"
       THEN JoinNotSent /\ UNCHANGED sig_count
       ELSE sig_count < MaxSignals /\ sig_count' = sig_count + 1
    /\ IF TransportReturned
       THEN sig_open' = FALSE /\ UNCHANGED sig_rx
       ELSE sig_rx' = Append(sig_rx, e) /\ UNCHANGED sig_open
    /\ UNCHANGED <<handleVars, t_pc, sig_tx, pending_offer, connected, remote_cands,
                   frames_sent, frames_dropped, track_dims,
                   rtc_count, last_signal, offers_taken, answers_sent, pli_seen,
                   ice_disc_seen, t_stop_calls, t_sends,
                   configVars, auxVars, startVars, engineVars, captureVars, threadVars,
                   encoderVars, audioVars, callbackVars, historyVars, hostVars>>

\* signal_recv_loop: Message::Close or a read error ends the loop and drops
\* event_tx
SignalClosed ==
    /\ sig_open
    /\ t_pc /= "none"
    /\ sig_open' = FALSE
    /\ UNCHANGED <<handleVars, t_pc, sig_rx, sig_tx, pending_offer, connected,
                   remote_cands, frames_sent, frames_dropped, track_dims, linkHistory,
                   configVars, auxVars, startVars, engineVars, captureVars, threadVars,
                   encoderVars, audioVars, callbackVars, historyVars, hostVars>>

\* transport_thread, "Wait for Join response first": one signal_rx.recv().await
\* of the loop.  Join => the publisher setup up to the main loop: AddTrack with
\* config.width/height, the SDP offer, the local candidate with target 0.  Any
\* other event => continue (the event is discarded).  None (channel closed and
\* empty) => the thread returns.  The wait has no timeout and does not look at
\* the stop flag.
TWaitJoin ==
    /\ t_pc = "join"
    /\ IF sig_rx /= <<>>
       THEN LET e == Head(sig_rx) IN
            /\ sig_rx' = Tail(sig_rx)
            /\ last_signal' = e
            /\ offers_taken' = offers_taken + (IF e.kind = "Offer" THEN 1 ELSE 0)
            /\ IF e.kind = "Join"
               THEN /\ t_pc' = "head"
                    /\ sig_tx' = sig_tx \o <<"AddTrack", "Offer", "Trickle">>
                    /\ track_dims' = t_dims
                    /\ pending_offer' = TRUE
               ELSE UNCHANGED <<t_pc, sig_tx, track_dims, pending_offer>>
            /\ UNCHANGED t_cmd_q
       ELSE /\ ~sig_open
            /\ t_pc' = "done"
            /\ t_cmd_q' = <<>>
            /\ UNCHANGED <<sig_rx, last_signal, offers_taken, sig_tx, track_dims,
                           pending_offer>>
    /\ UNCHANGED <<t_stop_flag, t_dims, sig_open, connected, remote_cands,
                   frames_sent, frames_dropped,
                   sig_count, rtc_count, answers_sent, pli_seen, ice_disc_seen,
                   t_stop_calls, t_sends,
                   configVars, auxVars, startVars, engineVars, captureVars, threadVars,
                   encoderVars, audioVars, callbackVars, historyVars, hostVars>>

\* main loop head: if stop_flag.load() { signal.send_leave(); break }
THead ==
    /\ t_pc = "head"
    /\ IF t_stop_flag
       THEN /\ sig_tx' = Append(sig_tx, "Leave")
            /\ t_pc' = "done"
            /\ sig_rx' = <<>>
            /\ t_cmd_q' = <<>>
       ELSE /\ t_pc' = "signals"
            /\ UNCHANGED <<sig_tx, sig_rx, t_cmd_q>>
    /\ UNCHANGED <<t_stop_flag, t_dims, sig_open, pending_offer, connected,
                   remote_cands, frames_sent, frames_dropped, track_dims, linkHistory,
                   configVars, auxVars, startVars, engineVars, captureVars, threadVars,
                   encoderVars, audioVars, callbackVars, historyVars, hostVars>>

AnyTarget(target) == TRUE

\* if trickle.target == 0
IsPublisherTarget(target) == target = 0

\* one iteration of `while let Ok(event) = signal_rx.try_recv()`:
\* Answer applies to the pending offer, if any; Trickle adds a remote
\* candidate when its target is 0 and the candidate parses; Offer is accepted
\* and answered when it parses and accept_offer returns Ok; Leave stores the
\* stop flag and leaves the loop; anything else is ignored.  Err(Empty or
\* Disconnected) ends the loop.
TSignal ==
    /\ t_pc = "signals"
    /\ IF sig_rx = <<>>
       THEN /\ t_pc' = "cmds"
            /\ UNCHANGED <<sig_rx, last_signal, offers_taken, pending_offer,
                           remote_cands, sig_tx, answers_sent, t_stop_flag>>
       ELSE LET e == Head(sig_rx) IN
            /\ sig_rx' = Tail(sig_rx)
            /\ last_signal' = e
            /\ offers_taken' = offers_taken + (IF e.kind = "Offer" THEN 1 ELSE 0)
            /\ pending_offer' = (pending_offer /\ e.kind /= "Answer")
            /\ \E parsed \in BOOLEAN :
                 /\ remote_cands' =
                      IF e.kind = "Trickle" /\ IsPublisherTarget(e.target) /\ parsed
                      THEN remote_cands + 1 ELSE remote_cands
                 /\ IF e.kind = "Offer" /\ parsed
                    THEN /\ sig_tx' = Append(sig_tx, "Answer")
                         /\ answers_sent' = answers_sent + 1
                    ELSE UNCHANGED <<sig_tx, answers_sent>>
            /\ t_stop_flag' = (t_stop_flag \/ e.kind = "Leave")
            /\ t_pc' = IF e.kind = "Leave" THEN "cmds" ELSE t_pc
    /\ UNCHANGED <<t_cmd_q, t_dims, sig_open, connected, frames_sent, frames_dropped,
                   track_dims, sig_count, rtc_count, pli_seen, ice_disc_seen,
                   t_stop_calls, t_sends,
                   configVars, auxVars, startVars, engineVars, captureVars, threadVars,
                   encoderVars, audioVars, callbackVars, historyVars, hostVars>>

\* how many commands one pass of `while let Ok(cmd) = cmd_rx.try_recv()`
\* takes: up to and including the first Stop, and no more than the batch limit
BatchLen(q) ==
    LET n == IF Len(q) < CmdBatchLimit THEN Len(q) ELSE CmdBatchLimit
        stops == {i \in 1 .. n : q[i] = "Stop"}
    IN IF stops = {} THEN n ELSE CHOOSE i \in stops : \A j \in stops : i <= j

WriteUnconnected(conn, videos) == videos

\* if connected { send_video_frame(..); frames_sent += 1 } else
\* { frames_dropped += 1 }: how many of the VideoFrames of a pass are handed
\* to send_video_frame
WrittenToTrack(conn, videos) == IF conn THEN videos ELSE 0

\* "Process transport commands": VideoFrame is written to the peer connection
\* when connected and dropped when not; AudioFrame and ForceKeyframe do
\* nothing; Stop sends the LeaveRequest, stores the stop flag and breaks
TCommand ==
    /\ t_pc = "cmds"
    /\ LET n == BatchLen(t_cmd_q)
           batch == SubSeq(t_cmd_q, 1, n)
           videos == Count(batch, "VideoFrame")
           stop == "Stop" \in Range(batch)
       IN /\ t_cmd_q' = SubSeq(t_cmd_q, n + 1, Len(t_cmd_q))
          /\ frames_sent' = frames_sent + WrittenToTrack(connected, videos)
          /\ frames_dropped' = IF connected THEN frames_dropped
                               ELSE frames_dropped + videos
          /\ sig_tx' = IF stop THEN Append(sig_tx, "Leave") ELSE sig_tx
          /\ t_stop_flag' = (t_stop_flag \/ stop)
    /\ t_pc' = "poll"
    /\ UNCHANGED <<t_dims, sig_rx, sig_open, pending_offer, connected, remote_cands,
                   track_dims, linkHistory,
                   configVars, auxVars, startVars, engineVars, captureVars, threadVars,
                   encoderVars, audioVars, callbackVars, historyVars, hostVars>>

\* what rtc.poll_output() returns, besides Transmit (sent on the socket, the
\* state is left as it is): the next timeout, an ICE connection state change,
\* a keyframe request of the remote side, an error
RtcOutputs ==
    {"Timeout"}
    \cup (IF rtc_count < MaxRtc
          THEN {"KeyframeRequest", "Err"}
               \cup (IF connected THEN {"IceDisconnected"} ELSE {"IceConnected"})
          ELSE {})

\* "Drive str0m": one rtc.poll_output() of the inner loop.  Timeout (or the
\* safety valve) ends it: the thread sleeps, reads the socket, advances the
\* time and goes to the loop head.  IceConnectionStateChange(Connected) sets
\* connected; (Disconnected) clears it and stores the transport's stop flag;
\* KeyframeRequest is logged; Err stores the stop flag and ends the loop.
TPoll ==
    /\ t_pc = "poll"
    /\ \E out \in RtcOutputs :
         /\ rtc_count' = IF out = "Timeout" THEN rtc_count ELSE rtc_count + 1
         /\ connected' = IF out = "IceConnected" THEN TRUE
                         ELSE IF out = "IceDisconnected" THEN FALSE ELSE connected
         /\ t_stop_flag' = (t_stop_flag \/ out \in {"IceDisconnected", "Err"})
         /\ ice_disc_seen' = (ice_disc_seen \/ out = "IceDisconnected")
         /\ pli_seen' = pli_seen + (IF out = "KeyframeRequest" THEN 1 ELSE 0)
         /\ t_pc' = IF out \in {"Timeout", "Err"} THEN "head" ELSE t_pc
    /\ UNCHANGED <<t_cmd_q, t_dims, sig_rx, sig_open, sig_tx, pending_offer,
                   remote_cands, frames_sent, frames_dropped, track_dims,
                   sig_count, last_signal, offers_taken, answers_sent,
                   t_stop_calls, t_sends,
                   configVars, auxVars, startVars, engineVars, captureVars, threadVars,
                   encoderVars, audioVars, callbackVars, historyVars, hostVars>>

\* LiveKitTransport::send_video, called by process_frame for every unit:
\* let _ = self.cmd_tx.send(TransportCommand::VideoFrame { .. })
SendVideo ==
    /\ t_pc /= "none"
    /\ t_sends < MaxSends
    /\ t_sends' = t_sends + 1
    /\ t_cmd_q' = IF TransportReturned THEN t_cmd_q ELSE Append(t_cmd_q, "VideoFrame")
    /\ UNCHANGED <<t_stop_flag, t_dims, linkVars, sig_count, rtc_count, last_signal,
                   offers_taken, answers_sent, pli_seen, ice_disc_seen, t_stop_calls,
                   configVars, auxVars, startVars, engineVars, captureVars, threadVars,
                   encoderVars, audioVars, callbackVars, historyVars, hostVars>>

\* LiveKitTransport::stop, called on the handle the session owns
SendStop ==
    /\ t_pc /= "none"
    /\ t_stop_calls < MaxTStops
    /\ LiveKitStop
    /\ UNCHANGED <<configVars, auxVars, startVars, engineVars, captureVars, threadVars,
                   encoderVars, audioVars, callbackVars, historyVars, hostVars>>

\* ------------------------------------------------------- TransportSpec

TransportThreadStep ==
    \/ TWaitJoin
    \/ THead
    \/ TSignal
    \/ TCommand
    \/ TPoll

NextTransport ==
    \/ \E e \in SignalEvents : SignalArrives(e)
    \/ SignalClosed
    \/ TWaitJoin
    \/ THead
    \/ TSignal
    \/ TCommand
    \/ TPoll
    \/ SendStop

\* the transport from the moment LiveKitTransport::connect has returned Ok,
\* with the SFU sending signals and the session calling stop() on the handle
TransportSpec == Init /\ [][NextTransport]_vars

\* TransportSpec with the transport thread scheduled fairly
LiveTransportSpec == Init /\ [][NextTransport]_vars /\ WF_vars(TransportThreadStep)

\* ------------------------------------------------------- LiveSessionSpec

\* the session and its transport together: the encode/publish thread with
\* the host calling stop(), the transport thread with the SFU sending the
\* JoinResponse and the WebRTC driver reporting events; the capture backend
\* delivers no further frame
NextSession ==
    \/ CreateEncoder
    \/ ProcessFirstFrame
    \/ LoopHead
    \/ PollCommands
    \/ DrainCapture
    \/ WaitFrame
    \/ ProcessLatest
    \/ FlushEncoder
    \/ TransportStop
    \/ OnStopped
    \/ Cleanup
    \/ Stop
    \/ SignalArrives([kind |-> "Join", target |-> 0])
    \/ TWaitJoin
    \/ THead
    \/ TSignal
    \/ TCommand
    \/ TPoll

\* both spawned threads are scheduled fairly
LiveSessionSpec ==
    /\ Init
    /\ [][NextSession]_vars
    /\ WF_vars(ThreadStep)
    /\ WF_vars(TransportThreadStep)

\* ------------------------------ engine.rs: MediaEngine::start_screen_share

\* widths and heights of a first frame: odd and even ones, one whose
\* rounding carries into the next byte, and the ends of the u32 range
FrameWidths ==
    {<<127, 7, 0, 0>>, <<128, 7, 0, 0>>, <<255, 0, 0, 0>>,
     <<254, 255, 255, 255>>, <<255, 255, 255, 255>>}
FrameHeights ==
    {<<55, 4, 0, 0>>, <<56, 4, 0, 0>>, <<0, 0, 0, 0>>, <<255, 255, 255, 255>>}

\* EngineError::Capture("No frame received within 5s".into())
NoFrameError == "Capture(No frame received within 5s)"

\* the state before MediaEngine::start_screen_share is called
InitStart ==
    /\ fps \in SessionFps
    /\ capture_audio \in BOOLEAN
    /\ SessionFresh
    /\ cap_state = "idle"
    /\ next_frame = FirstFrame
    /\ TransportIdle
    /\ t_pc = "none"
    /\ sig_open = FALSE
    /\ t_dims = NoDims
    /\ s_pc = "capture"
    /\ s_result = "none"
    /\ first_dims \in FrameWidths \X FrameHeights
    /\ dims = NoDims
    /\ audio_pc = "off"
    /\ pc = "none"
    /\ total_frames = 0
    /\ enc_is_async = FALSE
    /\ enc_dims = NoDims
    /\ HostIdle
    /\ AuxIdle

\* let (frame_rx, cap_stop) = start_capture(cap_config)?;
StartCapture ==
    /\ s_pc = "capture"
    /\ \E ok \in BOOLEAN :
         IF ok
         THEN /\ cap_state' = "running"
              /\ s_pc' = "first_frame"
              /\ UNCHANGED s_result
         ELSE /\ s_result' = "Capture"
              /\ s_pc' = "returned"
              /\ UNCHANGED cap_state
    /\ UNCHANGED <<frame_q, cap_stop_flag, next_frame, cap_result, last_try_send,
                   first_dims, dims, enc_dims,
                   configVars, auxVars, engineVars, threadVars, encoderVars, transportVars,
                   audioVars, callbackVars, historyVars, hostVars>>

ProceedWithoutFrame(got) == "dims"

\* frame_rx.recv_timeout(5 s).map_err(|_| Capture("No frame received within 5s"))?
AfterFirstFrame(got) == IF got THEN "dims" ELSE "returned"

\* "Wait for first frame to get dimensions": the backend delivers the first
\* frame within 5 s, or recv_timeout returns Err (Timeout or Disconnected)
\* and start_screen_share returns the error
StartFirstFrame ==
    /\ s_pc = "first_frame"
    /\ \E got \in BOOLEAN :
         /\ next_frame' = IF got THEN FirstFrame + 1 ELSE next_frame
         /\ s_result' = IF got THEN s_result ELSE NoFrameError
         /\ s_pc' = AfterFirstFrame(got)
    /\ UNCHANGED <<frame_q, cap_state, cap_stop_flag, cap_result, last_try_send,
                   first_dims, dims, enc_dims,
                   configVars, auxVars, engineVars, threadVars, encoderVars, transportVars,
                   audioVars, callbackVars, historyVars, hostVars>>

\* let width = (first_frame.width + 1) & !1; let height = ..;  When the
\* addition overflows it panics in a build with overflow checks and wraps in
\* one without.
StartDims ==
    /\ s_pc = "dims"
    /\ \E overflow_checks \in BOOLEAN :
         IF overflow_checks /\ (AddOneOverflows(first_dims[1]) \/ AddOneOverflows(first_dims[2]))
         THEN /\ s_result' = "panic"
              /\ s_pc' = "returned"
              /\ UNCHANGED dims
         ELSE /\ dims' = <<EvenRound(first_dims[1]), EvenRound(first_dims[2])>>
              /\ s_pc' = "connect"
              /\ UNCHANGED s_result
    /\ UNCHANGED <<first_dims, enc_dims,
                   configVars, auxVars, engineVars, captureVars, threadVars, encoderVars,
                   transportVars, audioVars, callbackVars, historyVars, hostVars>>

\* let transport = LiveKitTransport::connect(transport_config).await?; with
\* transport_config.width/height the width and height of the session:
\* signal::connect fails (bad URL, WebSocket connect), or the transport thread
\* is spawned
StartConnect ==
    /\ s_pc = "connect"
    /\ \E ok \in BOOLEAN :
         IF ok
         THEN /\ t_pc' = "join"
              /\ sig_open' = TRUE
              /\ t_dims' = dims
              /\ s_pc' = "audio"
              /\ UNCHANGED s_result
         ELSE /\ s_result' = "Transport"
              /\ s_pc' = "returned"
              /\ UNCHANGED <<t_pc, sig_open, t_dims>>
    /\ UNCHANGED <<first_dims, dims, enc_dims, t_stop_flag, t_cmd_q,
                   sig_rx, sig_tx, pending_offer, connected, remote_cands,
                   frames_sent, frames_dropped, track_dims, linkHistory,
                   configVars, auxVars, engineVars, captureVars, threadVars, encoderVars,
                   audioVars, callbackVars, historyVars, hostVars>>

\* "Start audio capture if enabled": start_audio_capture spawns the capture
\* thread and returns Ok; the audio forward thread is spawned
StartAudio ==
    /\ s_pc = "audio"
    /\ audio_pc' = IF capture_audio THEN "loop" ELSE audio_pc
    /\ s_pc' = "spawn"
    /\ UNCHANGED <<s_result, first_dims, dims, enc_dims, audio_stop_flag,
                   configVars, auxVars, engineVars, captureVars, threadVars, encoderVars,
                   transportVars, callbackVars, historyVars, hostVars>>

\* "Spawn the main encode+publish thread", Ok(Self { cmd_tx, stop_flag })
StartSpawn ==
    /\ s_pc = "spawn"
    /\ pc' = "create"
    /\ s_result' = "Ok"
    /\ s_pc' = "returned"
    /\ UNCHANGED <<first_dims, dims, enc_dims,
                   force_next_keyframe, latest_frame, total_frames,
                   configVars, auxVars, engineVars, captureVars, encoderVars,
                   transportVars, audioVars, callbackVars, historyVars, hostVars>>

\* start_screen_share step by step, then the first step of each thread it
\* spawned: the encoder creation and the wait for the JoinResponse
NextStart ==
    \/ StartCapture
    \/ StartFirstFrame
    \/ StartDims
    \/ StartConnect
    \/ StartAudio
    \/ StartSpawn
    \/ CreateEncoder
    \/ SignalArrives([kind |-> "Join", target |-> 0])
    \/ SignalClosed
    \/ TWaitJoin

StartSpec == InitStart /\ [][NextStart]_vars

\* ---------------------------------------------------------- BatchSpec

\* the commands send_video and send_audio put on the command channel
MediaCommands == {"VideoFrame", "AudioFrame"}

\* the contents of the command channel: the session and the audio thread
\* send while the transport thread waits for the JoinResponse
QueuedCommands == UNION {[1 .. k -> MediaCommands] : k \in 0 .. MaxQueued}

\* The transport thread entering its main loop after the join: AddTrack, the
\* offer and the local candidate sent, the offer pending, not connected, and
\* the commands sent meanwhile waiting on the channel.
InitBatch ==
    /\ fps \in SessionFps
    /\ capture_audio = TRUE
    /\ SessionFresh
    /\ cap_state = "running"
    /\ next_frame = FirstFrame + 1
    /\ s_pc = "returned"
    /\ s_result = "Ok"
    /\ first_dims = SessionFirstDims
    /\ dims = <<EvenRound(first_dims[1]), EvenRound(first_dims[2])>>
    /\ audio_pc = "loop"
    /\ pc = "head"
    /\ total_frames = 0
    /\ enc_is_async = FALSE
    /\ enc_dims = dims
    /\ HostIdle
    /\ AuxIdle
    /\ t_stop_flag = FALSE
    /\ t_cmd_q \in QueuedCommands
    /\ t_dims = dims
    /\ t_pc = "head"
    /\ sig_rx = <<>>
    /\ sig_open = TRUE
    /\ sig_tx = <<"AddTrack", "Offer", "Trickle">>
    /\ pending_offer = TRUE
    /\ connected = FALSE
    /\ remote_cands = 0
    /\ frames_sent = 0
    /\ frames_dropped = 0
    /\ track_dims = t_dims
    /\ sig_count = 0
    /\ rtc_count = 0
    /\ last_signal = [kind |-> "Join", target |-> 0]
    /\ offers_taken = 0
    /\ answers_sent = 0
    /\ pli_seen = 0
    /\ ice_disc_seen = FALSE
    /\ t_stop_calls = 0
    /\ t_sends = Count(t_cmd_q, "VideoFrame")

\* the main loop of the transport thread working off the channel, with the
\* session calling send_video() and stop() on its handle
NextBatch ==
    \/ THead
    \/ TSignal
    \/ TCommand
    \/ TPoll
    \/ SendVideo
    \/ SendStop

BatchSpec == InitBatch /\ [][NextBatch]_vars

\* ------------------------------------- UrlSpec (signal.rs: build_ws_url)

\* the schemes of the server URLs build_ws_url is given
UrlSchemes == {"http", "https", "ws", "wss"}
\* their paths, the keys of the query they already carry, the tokens
UrlPaths == {"", "/", "/room"}
UrlQueries == {<<>>, <<"region">>}
UrlTokens == {"t1", "t2"}

\* the pairs appended by url.query_pairs_mut()
WsQueryKeys ==
    <<"sdk", "protocol", "version", "auto_subscribe", "adaptive_stream",
      "access_token">>

InitUrl ==
    /\ fps \in SessionFps
    /\ capture_audio = FALSE
    /\ SessionFresh
    /\ cap_state = "idle"
    /\ next_frame = FirstFrame
    /\ TransportIdle
    /\ t_pc = "none"
    /\ sig_open = FALSE
    /\ t_dims = NoDims
    /\ s_pc = "connect"
    /\ s_result = "none"
    /\ first_dims = SessionFirstDims
    /\ dims = <<EvenRound(first_dims[1]), EvenRound(first_dims[2])>>
    /\ audio_pc = "off"
    /\ pc = "none"
    /\ total_frames = 0
    /\ enc_is_async = FALSE
    /\ enc_dims = NoDims
    /\ HostIdle
    /\ SelectIdle
    /\ MftIdle
    /\ UploadIdle
    /\ NativeIdle
    /\ url_pc = "input"
    /\ url_in \in [valid : BOOLEAN, scheme : UrlSchemes, path : UrlPaths,
                   query : UrlQueries, token : UrlTokens]
    /\ url_out = NoUrlOut

WsSchemeHttpsOnly(scheme) == IF scheme = "https" THEN "wss" ELSE "ws"

\* match url.scheme() { "https" | "wss" => set_scheme("wss"), _ => set_scheme("ws") }
WsScheme(scheme) == IF scheme \in {"https", "wss"} THEN "wss" ELSE "ws"

\* build_ws_url(server_url, token): Url::parse fails with
\* Transport("Invalid URL: ..") or the scheme is converted, the path is set
\* to /rtc and the six pairs are appended to the query
BuildWsUrl ==
    /\ url_pc = "input"
    /\ url_pc' = "built"
    /\ url_out' =
         IF ~url_in.valid
         THEN [result |-> "Transport(Invalid URL)", scheme |-> "", path |-> "",
               query |-> <<>>]
         ELSE [result |-> "Ok", scheme |-> WsScheme(url_in.scheme),
               path |-> "/rtc", query |-> url_in.query \o WsQueryKeys]
    /\ UNCHANGED <<url_in, selVars, mftVars, mftHistory, upVars, ncVars, configVars, engineVars, captureVars, threadVars,
                   encoderVars, transportVars, audioVars, callbackVars,
                   historyVars, hostVars, startVars>>

UrlSpec == InitUrl /\ [][BuildWsUrl]_vars

\* ---------------------------------- SelectSpec (mft.rs: create_encoder)

\* what ActivateObject does for one IMFActivate of an enumeration: Err, or a
\* transform whose MF_TRANSFORM_ASYNC attribute is 0 or not
Activations == {"fail", "sync", "async"}

\* the arrays MFTEnumEx returns, in its order (count == 0: the empty one)
Enumerations == UNION {[1 .. k -> Activations] : k \in 0 .. MaxActivates}

InitSelect ==
    /\ fps \in SessionFps
    /\ capture_audio = FALSE
    /\ SessionStarted
    /\ pc = "create"
    /\ total_frames = 0
    /\ enc_is_async = FALSE
    /\ enc_dims = NoDims
    /\ HostIdle
    /\ UrlIdle
    /\ MftIdle
    /\ UploadIdle
    /\ NativeIdle
    /\ sel_pc = "input"
    /\ sel_in \in [prefer_hardware : BOOLEAN, sync : Enumerations,
                   hardware : Enumerations]
    /\ sel_out = NoChoice

\* let flag_sets = if config.prefer_hardware { vec![SYNCMFT, HARDWARE | ASYNCMFT] }
\*                 else { vec![SYNCMFT] }: the passes, in the order tried
FlagSets(prefer_hardware) ==
    IF prefer_hardware THEN <<"sync", "hardware">> ELSE <<"sync">>

\* for i in 0..count: the first IMFActivate whose ActivateObject returns Ok
\* (0: none)
FirstActivated(list) ==
    LET ok == {i \in 1 .. Len(list) : list[i] /= "fail"}
    IN IF ok = {} THEN 0 ELSE CHOOSE i \in ok : \A j \in ok : i <= j

\* for flags in &flag_sets { .. if transform.is_some() { break } }: the first
\* pass in which a transform activates gives the transform; is_async is what
\* its attribute says
ChooseTransform(enc) ==
    LET passes == FlagSets(enc.prefer_hardware)
        found == {p \in 1 .. Len(passes) : FirstActivated(enc[passes[p]]) /= 0}
    IN IF found = {}
       THEN [result |-> "Encode(Failed to activate any H.264 encoder)",
             pass |-> "none", is_async |-> FALSE]
       ELSE LET p == CHOOSE q \in found : \A r \in found : q <= r
                list == enc[passes[p]]
            IN [result |-> "Ok", pass |-> passes[p],
                is_async |-> list[FirstActivated(list)] = "async"]

\* create_encoder, "Two-pass enumeration"
SelectEncoder ==
    /\ sel_pc = "input"
    /\ sel_pc' = "chosen"
    /\ sel_out' = ChooseTransform(sel_in)
    /\ UNCHANGED <<sel_in, urlVars, mftVars, mftHistory, upVars, ncVars, configVars, engineVars, captureVars, threadVars,
                   encoderVars, transportVars, audioVars, callbackVars,
                   historyVars, hostVars, startVars>>

SelectSpec == InitSelect /\ [][SelectEncoder]_vars

\* --------------------------------------------- MftSpec (mft.rs: MftEncoder)

\* everything but the encoder used on its own
nonMftVars == <<urlVars, selVars, upVars, ncVars, configVars, engineVars, captureVars, threadVars,
                encoderVars, transportVars, audioVars, callbackVars, historyVars,
                hostVars, startVars>>

\* An MftEncoder returned by MftEncoder::new, of either variant, in a session
\* whose thread is creating its pipeline.
InitMft ==
    /\ fps \in SessionFps
    /\ capture_audio = FALSE
    /\ SessionStarted
    /\ pc = "create"
    /\ total_frames = 0
    /\ enc_is_async = FALSE
    /\ enc_dims = NoDims
    /\ HostIdle
    /\ UrlIdle
    /\ SelectIdle
    /\ UploadIdle
    /\ NativeIdle
    /\ m_pc = "idle"
    /\ m_async \in BOOLEAN
    /\ MftFresh

\* event.GetType() of the events of an asynchronous transform; Other is any
\* type the code does not name
MftEventTypes == {"NeedInput", "HaveOutput", "DrainComplete", "Other"}

\* The asynchronous transform queues an event for GetEvent: a request for
\* input while it is streaming and not draining, the notice of an output it
\* holds, the end of a drain once every held output has been announced, or
\* an event of another type.
MftEmit(e) ==
    /\ m_pc /= "none"
    /\ m_async
    /\ m_started
    /\ m_emitted < MaxEvents
    /\ e = "NeedInput" => ~m_draining
    /\ e = "HaveOutput" => Count(m_events, "HaveOutput") < m_held
    /\ e = "DrainComplete" => m_draining /\ Count(m_events, "HaveOutput") >= m_held
    /\ m_events' = Append(m_events, e)
    /\ m_emitted' = m_emitted + 1
    /\ m_draining' = (m_draining /\ e /= "DrainComplete")
    /\ UNCHANGED <<m_pc, m_async, m_started, m_held, m_event_errs, m_encodes,
                   m_flushes, m_need_taken, m_inputs, m_drains, m_last, m_units,
                   nonMftVars>>

\* MftEncoder::encode: start() on the first call, the sample, then
\* encode_sync (ProcessInput with `?`, then drain_output: the samples the
\* transform gives until it needs more input) or the first loop of
\* encode_async
MftEncode ==
    /\ m_pc = "idle"
    /\ m_encodes < MaxEncodes
    /\ m_encodes' = m_encodes + 1
    /\ m_started' = TRUE
    /\ m_last' = "encode"
    /\ IF m_async
       THEN /\ m_pc' = "wait_input"
            /\ m_units' = 0
            /\ UNCHANGED <<m_inputs, m_held>>
       ELSE /\ m_inputs' = m_inputs + 1
            /\ \E accepted \in BOOLEAN :
                 IF accepted
                 THEN \E k \in 0 .. m_held + 1 :
                        /\ m_held' = m_held + 1 - k
                        /\ m_units' = k
                 ELSE /\ m_units' = 0
                      /\ UNCHANGED m_held
            /\ UNCHANGED m_pc
    /\ UNCHANGED <<m_async, m_events, m_draining, m_emitted, m_event_errs,
                   m_flushes, m_need_taken, m_drains, nonMftVars>>

\* encode_async, "Wait for METransformNeedInput event": one GetEvent of the
\* loop.  Err returns the error.  NeedInput ends the loop and the sample is
\* sent with ProcessInput (`?` on its error).  DrainComplete returns
\* Ok(Vec::new()) at once.  Any other event: the loop goes on.
MftWaitInput ==
    /\ m_pc = "wait_input"
    /\ \/ /\ m_event_errs < MaxEventErrors
          /\ m_event_errs' = m_event_errs + 1
          /\ m_pc' = "idle"
          /\ UNCHANGED <<m_events, m_need_taken, m_inputs, m_held>>
       \/ /\ m_events /= <<>>
          /\ m_events' = Tail(m_events)
          /\ UNCHANGED m_event_errs
          /\ IF Head(m_events) = "NeedInput"
             THEN /\ m_need_taken' = m_need_taken + 1
                  /\ m_inputs' = m_inputs + 1
                  /\ \E accepted \in BOOLEAN :
                       IF accepted
                       THEN m_held' = m_held + 1 /\ m_pc' = "collect"
                       ELSE m_pc' = "idle" /\ UNCHANGED m_held
             ELSE /\ m_pc' = IF Head(m_events) = "DrainComplete" THEN "idle"
                             ELSE m_pc
                  /\ UNCHANGED <<m_need_taken, m_inputs, m_held>>
    /\ UNCHANGED <<m_async, m_started, m_draining, m_emitted, m_encodes,
                   m_flushes, m_drains, m_last, m_units, nonMftVars>>

\* collect_one_output: Ok(Some(packet)) when ProcessOutput gives a sample,
\* Ok(None) on MF_E_TRANSFORM_NEED_MORE_INPUT, Err otherwise
CollectResults(held) == (IF held > 0 THEN {"Some"} ELSE {}) \cup {"None", "Err"}

\* encode_async, "Collect output events": one GetEvent of the loop.  Err
\* breaks.  HaveOutput: collect_one_output, then break.  NeedInput: break
\* ("No output yet, encoder needs more input").  Any other event: the loop
\* goes on.  After the loop Ok(packets).
MftCollect ==
    /\ m_pc = "collect"
    /\ \/ /\ m_event_errs < MaxEventErrors
          /\ m_event_errs' = m_event_errs + 1
          /\ m_pc' = "idle"
          /\ UNCHANGED <<m_events, m_need_taken, m_held, m_units>>
       \/ /\ m_events /= <<>>
          /\ m_events' = Tail(m_events)
          /\ UNCHANGED m_event_errs
          /\ IF Head(m_events) = "HaveOutput"
             THEN /\ \E r \in CollectResults(m_held) :
                       /\ m_held' = IF r = "Some" THEN m_held - 1 ELSE m_held
                       /\ m_units' = IF r = "Some" THEN m_units + 1 ELSE m_units
                  /\ m_pc' = "idle"
                  /\ UNCHANGED m_need_taken
             ELSE IF Head(m_events) = "NeedInput"
             THEN /\ m_need_taken' = m_need_taken + 1
                  /\ m_pc' = "idle"
                  /\ UNCHANGED <<m_held, m_units>>
             ELSE UNCHANGED <<m_pc, m_need_taken, m_held, m_units>>
    /\ UNCHANGED <<m_async, m_started, m_draining, m_emitted, m_encodes,
                   m_flushes, m_inputs, m_drains, m_last, nonMftVars>>

\* MftEncoder::flush, called by EncodePipeline::flush and by Drop: nothing
\* when not started; else ProcessMessage(MFT_MESSAGE_COMMAND_DRAIN), then
\* drain_output (sync: every sample held) or the event loop (async)
MftFlush ==
    /\ m_pc = "idle"
    /\ m_flushes < MaxFlushes
    /\ m_flushes' = m_flushes + 1
    /\ IF ~m_started
       THEN UNCHANGED <<m_pc, m_drains, m_draining, m_held, m_last, m_units>>
       ELSE /\ m_drains' = m_drains + 1
            /\ m_last' = "flush"
            /\ IF m_async
               THEN /\ m_pc' = "flush_wait"
                    /\ m_draining' = TRUE
                    /\ m_units' = 0
                    /\ UNCHANGED m_held
               ELSE /\ m_units' = m_held
                    /\ m_held' = 0
                    /\ UNCHANGED <<m_pc, m_draining>>
    /\ UNCHANGED <<m_async, m_started, m_events, m_emitted, m_event_errs,
                   m_encodes, m_need_taken, m_inputs, nonMftVars>>

\* flush, "For async MFT, wait for drain complete event": one GetEvent of
\* the loop.  Err breaks.  HaveOutput: the packet is kept when
\* collect_one_output returns Ok(Some).  DrainComplete breaks.  Any other
\* event: the loop goes on.
MftFlushEvent ==
    /\ m_pc = "flush_wait"
    /\ \/ /\ m_event_errs < MaxEventErrors
          /\ m_event_errs' = m_event_errs + 1
          /\ m_pc' = "idle"
          /\ UNCHANGED <<m_events, m_held, m_units>>
       \/ /\ m_events /= <<>>
          /\ m_events' = Tail(m_events)
          /\ UNCHANGED m_event_errs
          /\ IF Head(m_events) = "HaveOutput"
             THEN /\ \E r \in CollectResults(m_held) :
                       /\ m_held' = IF r = "Some" THEN m_held - 1 ELSE m_held
                       /\ m_units' = IF r = "Some" THEN m_units + 1 ELSE m_units
                  /\ UNCHANGED m_pc
             ELSE /\ m_pc' = IF Head(m_events) = "DrainComplete" THEN "idle"
                             ELSE m_pc
                  /\ UNCHANGED <<m_held, m_units>>
    /\ UNCHANGED <<m_async, m_started, m_draining, m_emitted, m_encodes,
                   m_flushes, m_need_taken, m_inputs, m_drains, m_last,
                   nonMftVars>>

NextMft ==
    \/ \E e \in MftEventTypes : MftEmit(e)
    \/ MftEncode
    \/ MftWaitInput
    \/ MftCollect
    \/ MftFlush
    \/ MftFlushEvent

\* the encoder under any sequence of encode() and flush() calls, with the
\* transform emitting its events
MftSpec == InitMft /\ [][NextMft]_vars

\* ------------------------------ pipeline.rs: EncodePipeline::encode_frame

\* uploads made by one pipeline in the model
MaxUploads == 3

\* widths and heights the capture delivers for one source over time: a
\* window at an odd and an even size, a smaller and a larger one
UploadWidths ==
    {<<32, 3, 0, 0>>, <<127, 7, 0, 0>>, <<128, 7, 0, 0>>, <<0, 10, 0, 0>>}
UploadHeights ==
    {<<88, 2, 0, 0>>, <<55, 4, 0, 0>>, <<56, 4, 0, 0>>, <<160, 5, 0, 0>>}

nonUploadVars == <<urlVars, selVars, mftVars, mftHistory, ncVars, configVars,
                   engineVars, captureVars, threadVars, encoderVars,
                   transportVars, audioVars, callbackVars, historyVars,
                   hostVars, startVars>>

\* the pipeline EncodePipeline::new has built for the session: bgra_texture
\* is created with config.width and config.height, the even-rounded size of
\* the session's first frame
InitUpload ==
    /\ fps \in SessionFps
    /\ capture_audio = FALSE
    /\ SessionStarted
    /\ pc = "create"
    /\ total_frames = 0
    /\ enc_is_async = FALSE
    /\ enc_dims = NoDims
    /\ HostIdle
    /\ UrlIdle
    /\ SelectIdle
    /\ MftIdle
    /\ NativeIdle
    /\ \E w \in UploadWidths, h \in UploadHeights :
         up_tex = <<EvenRound(w), EvenRound(h)>>
    /\ up_box = NoDims
    /\ up_count = 0

\* D3D11_BOX { left: 0, top: 0, front: 0, right: width, bottom: height, back: 1 }
UploadBox(width, height) == <<width, height>>

\* encode_frame(&frame.data, frame.width, frame.height, frame.row_pitch),
\* step 1: UpdateSubresource(&self.bgra_texture, 0, Some(&dst_box), ..) with
\* the box of the frame at hand; the texture is the one made at construction
EncodeFrameUpload ==
    /\ up_count < MaxUploads
    /\ \E width \in UploadWidths, height \in UploadHeights :
         up_box' = UploadBox(width, height)
    /\ up_count' = up_count + 1
    /\ UNCHANGED <<up_tex, nonUploadVars>>

\* one pipeline under the frames of a source whose size changes
UploadSpec == InitUpload /\ [][EncodeFrameUpload]_vars

\* --------------------------------- screen-capture/lib.rs: NativeCapture

\* start() and stop() calls made on one NativeCapture in the model
MaxNcStarts == 3
MaxNcStops == 2

\* source_id as start() reads it: with a second ':'-separated part that
\* parses as usize, or without one
NcSources == {"index", "no_index"}

\* Error::from_reason(..) of start()
NcAlreadyRunning == "Capture already running"
NcInvalidFormat == "Invalid source_id format"
NcNotFound == "Source not found"

nonNativeVars == <<urlVars, selVars, mftVars, mftHistory, upVars, configVars,
                   engineVars, captureVars, threadVars, encoderVars,
                   transportVars, audioVars, callbackVars, historyVars,
                   hostVars, startVars>>

\* NativeCapture::new: running: false, latest_frame: None,
\* capture_thread: None
InitNative ==
    /\ fps \in SessionFps
    /\ capture_audio = FALSE
    /\ SessionStarted
    /\ pc = "create"
    /\ total_frames = 0
    /\ enc_is_async = FALSE
    /\ enc_dims = NoDims
    /\ HostIdle
    /\ UrlIdle
    /\ SelectIdle
    /\ MftIdle
    /\ UploadIdle
    /\ nc_source \in NcSources
    /\ nc_running = FALSE
    /\ nc_frame = FALSE
    /\ nc_handle = FALSE
    /\ nc_thread = "none"
    /\ nc_pc = "idle"
    /\ nc_result = "none"
    /\ nc_starts = 0
    /\ nc_stops = 0

\* NativeCapture::start: the running check and `state.running = true`, then
\* the source_id parse and the target lookup, each returning its error with
\* `?`, then thread::spawn and self.capture_thread = Some(handle)
NcStart ==
    /\ nc_pc = "idle"
    /\ nc_starts < MaxNcStarts
    /\ nc_starts' = nc_starts + 1
    /\ IF nc_running
       THEN /\ nc_result' = NcAlreadyRunning
            /\ UNCHANGED <<nc_running, nc_handle, nc_thread>>
       ELSE /\ nc_running' = TRUE
            /\ IF nc_source = "no_index"
               THEN /\ nc_result' = NcInvalidFormat
                    /\ UNCHANGED <<nc_handle, nc_thread>>
               ELSE \E found \in BOOLEAN :
                      IF found
                      THEN /\ nc_result' = "Ok"
                           /\ nc_handle' = TRUE
                           /\ nc_thread' = "build"
                      ELSE /\ nc_result' = NcNotFound
                           /\ UNCHANGED <<nc_handle, nc_thread>>
    /\ UNCHANGED <<nc_source, nc_frame, nc_pc, nc_stops, nonNativeVars>>

\* the spawned closure: Capturer::build(options), on Err running = false
\* and return, on Ok capturer.start_capture() and the loop
NcBuild ==
    /\ nc_thread = "build"
    /\ \E ok \in BOOLEAN :
         IF ok
         THEN /\ nc_thread' = "loop"
              /\ UNCHANGED nc_running
         ELSE /\ nc_thread' = "exited"
              /\ nc_running' = FALSE
    /\ UNCHANGED <<nc_source, nc_frame, nc_handle, nc_pc, nc_result, nc_starts,
                   nc_stops, nonNativeVars>>

\* one pass of the loop: break if !running, else get_next_frame(): a BGRA
\* frame is stored in latest_frame, an Err breaks; stop_capture() and the
\* closure returns
NcLoop ==
    /\ nc_thread = "loop"
    /\ IF ~nc_running
       THEN /\ nc_thread' = "exited"
            /\ UNCHANGED nc_frame
       ELSE \E ok \in BOOLEAN :
              IF ok
              THEN /\ nc_frame' = TRUE
                   /\ UNCHANGED nc_thread
              ELSE /\ nc_thread' = "exited"
                   /\ UNCHANGED nc_frame
    /\ UNCHANGED <<nc_source, nc_running, nc_handle, nc_pc, nc_result,
                   nc_starts, nc_stops, nonNativeVars>>

\* NativeCapture::get_frame: state.latest_frame.take()
NcGetFrame ==
    /\ nc_pc = "idle"
    /\ nc_frame
    /\ nc_frame' = FALSE
    /\ UNCHANGED <<nc_source, nc_running, nc_handle, nc_thread, nc_pc,
                   nc_result, nc_starts, nc_stops, nonNativeVars>>

\* NativeCapture::stop: state.running = false, then
\* if let Some(handle) = self.capture_thread.take() the join begins
NcStop ==
    /\ nc_pc = "idle"
    /\ nc_stops < MaxNcStops
    /\ nc_stops' = nc_stops + 1
    /\ nc_running' = FALSE
    /\ nc_pc' = IF nc_handle THEN "join" ELSE "idle"
    /\ nc_handle' = FALSE
    /\ UNCHANGED <<nc_source, nc_frame, nc_thread, nc_result, nc_starts,
                   nonNativeVars>>

\* let _ = handle.join(); returns once the closure has returned
NcJoin ==
    /\ nc_pc = "join"
    /\ nc_thread = "exited"
    /\ nc_pc' = "idle"
    /\ nc_thread' = "none"
    /\ UNCHANGED <<nc_source, nc_running, nc_frame, nc_handle, nc_result,
                   nc_starts, nc_stops, nonNativeVars>>

NextNative ==
    \/ NcStart
    \/ NcBuild
    \/ NcLoop
    \/ NcGetFrame
    \/ NcStop
    \/ NcJoin

\* one NativeCapture object under start(), get_frame() and stop() calls
\* of the host, with its capture thread
NativeSpec == InitNative /\ [][NextNative]_vars

\* ------------------------------------------- 32-bit reference arithmetic

\* A 32-bit value as two 16-bit halves <<low, high>>, used to state the
\* properties independently of the byte arithmetic above.
Half == 2^16

\* the halves of a value kept as four bytes
Halves(b) == <<b[1] + Byte * b[2], b[3] + Byte * b[4]>>

\* (x + y) mod 2^32
AddH(x, y) ==
    LET lo == x[1] + y[1]
    IN <<lo % Half, (x[2] + y[2] + (lo \div Half)) % Half>>

\* (y - x) mod 2^32
SubH(y, x) ==
    LET borrow == IF y[1] < x[1] THEN 1 ELSE 0
    IN <<(y[1] - x[1] + Half) % Half, (y[2] - x[2] - borrow + 2 * Half) % Half>>

\* a number below 2^31 as halves
FromInt(a) == <<a % Half, a \div Half>>

\* (n * step) mod 2^32 for n < 2^31 and step < 2^17, from the three parts
\* n0 + 2^11 * n1 + 2^22 * n2 of n: each partial product stays below 2^31,
\* and a product shifted left keeps the bits that stay below 2^32
MulModH(n, step) ==
    LET n0 == n % 2048
        n1 == (n \div 2048) % 2048
        n2 == n \div 4194304
        p1 == (n1 * step) % 2097152
        p2 == (n2 * step) % 1024
    IN AddH(AddH(FromInt(n0 * step), <<(p1 % 32) * 2048, p1 \div 32>>),
            <<0, p2 * 64>>)

\* (index * (90000 / fps)) mod 2^32, integer division
RefTs(index, f) == MulModH(index, RtpClock \div Max(f, 1))

\* a <= b in the order of 32-bit serial numbers: (b - a) mod 2^32 < 2^31
SerialLeq(a, b) == SubH(b, a)[2] < Half \div 2

\* a < b as plain numbers
NumLess(a, b) == a[2] < b[2] \/ (a[2] = b[2] /\ a[1] < b[1])

\* ------------------------------------------------------------- properties

\* C1: at most one screen-share session is running at any moment, for every
\* interleaving of start_screen_share calls: never two sessions whose
\* encode/publish thread is alive and whose stop flag is clear.
C1_AtMostOneSessionRunning ==
    Cardinality({s \in Sessions : h_thread[s] = "live" /\ IsRunning(h_stop_flag[s])}) <= 1

\* C2: on_stopped is invoked exactly once over the lifetime of a session that
\* started: when the session's thread has returned, the callback has been
\* invoked once, and it is never invoked twice.
C2_OnStoppedExactlyOnce ==
    /\ on_stopped_count <= 1
    /\ pc = "done" => on_stopped_count = 1

\* C3: calling stop() twice is as calling it once: after the first call and
\* after the second is_running() is false, the loop has exited at most once
\* and on_stopped has been invoked at most once; the second call changes
\* nothing the first one set.
C3_StopTwiceIsStopOnce ==
    /\ [](stop_calls >= 1 => /\ ~IsRunning(stop_flag)
                             /\ loop_exits <= 1
                             /\ on_stopped_count <= 1)
    /\ [][(stop_calls >= 1 /\ stop_calls' = stop_calls + 1)
            => UNCHANGED <<stop_flag, pc, loop_exits, on_stopped_count,
                           t_stop_flag, cap_stop_flag, audio_stop_flag>>]_vars

\* C3 witness: stop() was called twice, the thread has returned, the loop
\* exited once and on_stopped was invoked once.
C3_Witness ==
    /\ stop_calls = 2
    /\ pc = "done"
    /\ loop_exits = 1
    /\ on_stopped_count = 1

\* C4: after stop() is called on a running session the workers terminate and
\* on_stopped is eventually invoked.
C4_StopLeadsToOnStopped ==
    (stop_calls >= 1 /\ ~ThreadReturned) ~> (on_stopped_count >= 1)

\* C5: the first unit submitted with send_video in a session is a keyframe.
C5_FirstUnitIsKeyframe ==
    sent /= <<>> => sent[1].key

\* C6 as stated: the first unit sent after a force_keyframe() call on a
\* running session is a keyframe.
C6_NextUnitAfterCallIsKeyframe ==
    \A i \in 1 .. Len(sent) : sent[i].after_force => sent[i].key

\* C6 as the code has it: when ForceKeyframe commands were dequeued at the
\* command polls before a frame is processed, that frame is preceded by a
\* force-IDR request, and every unit encoded from an input the encoder took
\* with a request pending is a keyframe.
C6_DequeuedForceMakesKeyframe ==
    /\ last_proc.polled >= 1 => last_proc.requests = 1
    /\ \A i \in 1 .. Len(sent) : sent[i].forced => sent[i].key

\* C6 witness: a frame was processed after a dequeued ForceKeyframe and the
\* unit encoded from a forced input, not the first of the stream, was sent
\* as a keyframe.
C6_Witness ==
    /\ last_proc.polled >= 1
    /\ last_proc.requests = 1
    /\ Len(sent) >= 2
    /\ sent[Len(sent)].forced
    /\ sent[Len(sent)].key

\* C7 as stated: a frame is preceded by exactly one force-IDR request when
\* n >= 1 force_keyframe() calls were made since the frame before it was
\* processed, and by none otherwise.
C7_CallsBeforeFrameCoalesce ==
    proc_count >= 1 => (last_proc.called >= 1 <=> last_proc.requests = 1)

\* C7 as the code has it: a frame is preceded by exactly one force-IDR
\* request when n >= 1 ForceKeyframe commands were dequeued since the frame
\* before it was processed, and by none otherwise; the pending flag is set
\* exactly while dequeued commands wait for a frame.
C7_DequeuedCommandsCoalesce ==
    /\ proc_count >= 1 => (last_proc.polled >= 1 <=> last_proc.requests = 1)
    /\ last_proc.requests <= 1
    /\ force_next_keyframe <=> polled_since >= 1

\* C7 witness: two commands were dequeued before a frame, the frame got one
\* request and the flag is clear.
C7_Witness ==
    /\ last_proc.polled = 2
    /\ last_proc.requests = 1
    /\ ~force_next_keyframe

\* C8: the RTP timestamps of the units sent, in submission order, never
\* decrease in the order of 32-bit serial numbers.
C8_TimestampsMonotone ==
    \A i \in 1 .. Len(sent) - 1 :
        SerialLeq(Halves(sent[i].ts), Halves(sent[i + 1].ts))

\* C8 witness: two consecutive units across the wrap of the 32-bit clock,
\* the later one with the smaller number.
C8_Witness ==
    \E i \in 1 .. Len(sent) - 1 :
        NumLess(Halves(sent[i + 1].ts), Halves(sent[i].ts))

\* C9 as stated: every unit carries (frame_index * (90000 / fps)) mod 2^32
\* with frame_index the index of the frame it was encoded from.
C9_TimestampOfSourceFrame ==
    \A i \in 1 .. Len(sent) : Halves(sent[i].ts) = RefTs(sent[i].src, fps)

\* C9 as the code has it: every unit carries
\* (total_frames * (90000 / max(fps, 1))) mod 2^32 with total_frames the
\* number of encode_frame() calls that had returned Ok before the call that
\* returned the unit; all units returned by one call carry the same value.
C9_TimestampOfReturningCall ==
    \A i \in 1 .. Len(sent) : Halves(sent[i].ts) = RefTs(sent[i].idx, fps)

\* C9 witness: one call returned two units, the first encoded from an
\* earlier frame.
C9_Witness ==
    \E i \in 1 .. Len(sent) - 1 :
        /\ sent[i].idx = sent[i + 1].idx
        /\ sent[i].src < sent[i].idx

\* C10: the capture channel never holds more than 2 frames; a frame that
\* arrives when it is full is discarded: the channel is left as it was and
\* the handler returns Ok to the capture backend, which keeps running.
C10_CaptureChannelBounded ==
    /\ [](/\ Len(frame_q) <= CaptureCapacity
          /\ last_try_send = "full" => cap_result = "Ok")
    /\ [][(next_frame' /= next_frame /\ Len(frame_q) >= CaptureCapacity)
            => /\ last_try_send' = "full"
               /\ UNCHANGED <<frame_q, cap_state>>]_vars

\* C10 witness: a frame arrived when the channel held 2 frames and was
\* discarded.
C10_Witness ==
    /\ last_try_send = "full"
    /\ Len(frame_q) = CaptureCapacity
    /\ cap_state = "running"

\* C11: when the ICE state changes to Disconnected on a connected session,
\* the session stop flag is set: is_running() becomes false, the
\* encode/publish loop exits and on_stopped is eventually invoked.
C11_IceDisconnectStopsSession ==
    (ice_disc_seen /\ InLoop) ~> (~IsRunning(stop_flag) /\ on_stopped_count >= 1)

\* C12: a keyframe request (PLI) reported by the WebRTC driver reaches the
\* pending force-keyframe flag of the encode/publish thread: when it is
\* reported while the thread is in its loop, the flag is eventually set (or
\* a ForceKeyframe command is queued for the thread), unless the loop ends.
C12_PliReachesForceFlag ==
    (pli_seen >= 1 /\ InLoop)
        ~> (force_next_keyframe \/ "ForceKeyframe" \in Range(cmd_q) \/ ~InLoop)

\* C13: every SDP offer the transport thread takes from the signaling
\* channel, also while it waits for the JoinResponse, is answered with
\* exactly one Answer sent over signaling.
C13_EveryOfferAnswered ==
    /\ answers_sent = offers_taken
    /\ Count(sig_tx, "Answer") = offers_taken

\* C14: a remote candidate is added to the peer connection only in the step
\* that handles a Trickle with target 0; the step that handles a Trickle
\* with target 1 leaves the peer connection as it is and sends nothing.
C14_OnlyPublisherCandidates ==
    /\ [][remote_cands' /= remote_cands
            => /\ sig_rx /= <<>>
               /\ Head(sig_rx) = [kind |-> "Trickle", target |-> 0]]_vars
    /\ [][(/\ t_pc \in {"join", "signals"}
           /\ sig_rx /= <<>>
           /\ sig_rx' = Tail(sig_rx)
           /\ Head(sig_rx) = [kind |-> "Trickle", target |-> 1])
            => UNCHANGED <<remote_cands, pending_offer, connected, sig_tx,
                           t_stop_flag>>]_vars

\* C14 witness: the main loop has handled a Trickle with target 1 after a
\* candidate with target 0 was added.
C14_Witness ==
    /\ last_signal = [kind |-> "Trickle", target |-> 1]
    /\ remote_cands = 1
    /\ t_pc = "signals"

\* C15: after a call of LiveKitTransport::stop(), in whatever lifecycle state
\* the transport is, the transport thread eventually emits a LeaveRequest
\* and terminates.
C15_StopLeadsToLeave ==
    (t_stop_calls >= 1) ~> (TransportReturned /\ "Leave" \in Range(sig_tx))

\* C16: the transport does not wait for the JoinResponse forever: the thread
\* that waits for it after connect eventually leaves the wait, whether a
\* JoinResponse arrives or not.
C16_JoinWaitEnds ==
    <>(t_pc /= "join")

\* C17: when the first frame does not arrive within the startup timeout,
\* start_screen_share returns Capture("No frame received within 5s"), and
\* with that result no transport connection, no encode/publish thread and no
\* audio thread has been started.
C17_NoFrameNoSession ==
    /\ [][(s_pc = "first_frame" /\ s_pc' /= s_pc /\ next_frame' = next_frame)
            => (s_result' = NoFrameError /\ s_pc' = "returned")]_vars
    /\ [](s_result = NoFrameError
            => /\ s_pc = "returned"
               /\ t_pc = "none"
               /\ ~sig_open
               /\ pc = "none"
               /\ audio_pc = "off")

\* C17 witness: start_screen_share has returned the error after the capture
\* started and no frame came.
C17_Witness ==
    /\ s_result = NoFrameError
    /\ s_pc = "returned"
    /\ cap_state = "running"
    /\ next_frame = FirstFrame

\* C18: start_screen_share never returns Ok for a session whose encoder
\* could not be created.
C18_EncoderFailureFailsStart ==
    on_error_count >= 1 => s_result /= "Ok"

\* a is the smallest even number >= w
IsEvenRoundOf(a, w) ==
    /\ a[1] % 2 = 0
    /\ ~NumLess(Halves(a), Halves(w))
    /\ NumLess(SubH(Halves(a), Halves(w)), <<2, 0>>)

C21_UnconnectedFramesDropped ==
    /\ [][(t_pc = "cmds" /\ ~connected /\ t_pc' = "poll") =>
            LET n == BatchLen(t_cmd_q)
                videos == Count(SubSeq(t_cmd_q, 1, n), "VideoFrame")
            IN /\ frames_sent' = frames_sent
               /\ frames_dropped' = frames_dropped + videos
               /\ t_cmd_q' = SubSeq(t_cmd_q, n + 1, Len(t_cmd_q))]_vars
    /\ [](frames_sent + frames_dropped + Count(t_cmd_q, "VideoFrame") <= t_sends)

\* a frame dropped before ICE connected, and the loop running connected
\* afterwards with nothing written
C21_Witness ==
    /\ frames_dropped >= 1
    /\ frames_sent = 0
    /\ connected
    /\ t_cmd_q = <<>>
    /\ t_pc = "head"


\* C22 as stated: build_ws_url maps https to wss and each of http, ws and wss
\* to ws.
C22_OnlyHttpsBecomesWss ==
    url_out.result = "Ok" =>
        url_out.scheme = (IF url_in.scheme = "https" THEN "wss" ELSE "ws")

\* C22 amended: build_ws_url maps https and wss to wss, and http and ws to ws.
C22_SecureSchemesBecomeWss ==
    url_out.result = "Ok" =>
        /\ url_in.scheme = "https" => url_out.scheme = "wss"
        /\ url_in.scheme = "wss" => url_out.scheme = "wss"
        /\ url_in.scheme = "http" => url_out.scheme = "ws"
        /\ url_in.scheme = "ws" => url_out.scheme = "ws"

\* a wss URL was converted
C22_Witness ==
    /\ url_pc = "built"
    /\ url_in.scheme = "wss"
    /\ url_out.result = "Ok"
    /\ url_out.scheme = "wss"


\* C23: when a frame arrives while the capture channel is full, an older
\* queued frame is dropped and the new frame is enqueued: after the arrival
\* the newest frame is the last of the channel.
C23_FullChannelKeepsNewest ==
    [][(last_try_send' = "full" /\ next_frame' = next_frame + 1) =>
          /\ Len(frame_q') = CaptureCapacity
          /\ frame_q'[Len(frame_q')] = next_frame]_vars


\* C24: the drain of an iteration ends on an empty capture channel; the
\* frame handed to process_frame in the iteration is the last one dequeued
\* in it, each frame dequeued before it in the iteration is older than it,
\* and the frames encoded are strictly newer from one iteration to the next
\* (a frame passed over is never encoded); one frame is encoded per iteration.
C24_LastDequeuedEncoded ==
    /\ [][(pc = "drain" /\ pc' /= "drain") => frame_q = <<>>]_vars
    /\ [][(pc = "process" /\ proc_count' /= proc_count) =>
            /\ dequeued /= <<>>
            /\ last_proc'.frame = dequeued[Len(dequeued)]
            /\ \A i \in 1 .. Len(dequeued) - 1 : dequeued[i] < last_proc'.frame
            /\ last_proc.frame < last_proc'.frame
            /\ proc_count' = proc_count + 1
            /\ dequeued' = <<>>]_vars

\* an iteration dequeued two frames and encoded the second
C24_Witness ==
    /\ pc = "head"
    /\ proc_count = 2
    /\ last_proc.frame = FirstFrame + 2
    /\ enc_inputs = 2


\* C25: when the loop finds the capture channel disconnected, in the drain
\* or in the blocking receive after it, the stop flag is set by that step.
C25_DisconnectSignalsStop ==
    [][(\/ /\ pc = "drain"
           /\ frame_q = <<>>
           /\ cap_state = "closed"
           /\ pc' = "wait"
        \/ /\ pc = "wait"
           /\ latest_frame = NoFrame
           /\ ~stop_flag
           /\ frame_q = <<>>
           /\ cap_state = "closed"
           /\ pc' = "flush")
       => stop_flag']_vars


\* C26: one pass over the command channel takes at most 5 commands, and what
\* it leaves is the rest of the channel in order.
C26_AtMostFiveCommandsPerPass ==
    [][(t_pc = "cmds" /\ t_pc' = "poll") =>
          \E n \in 0 .. 5 :
             /\ n <= Len(t_cmd_q)
             /\ t_cmd_q' = SubSeq(t_cmd_q, n + 1, Len(t_cmd_q))]_vars


\* C27: with prefer_hardware the transform chosen is a hardware one whenever
\* a hardware transform activates, and a software sync one only when none
\* does; without prefer_hardware it is a software sync one.
C27_HardwareTriedFirst ==
    sel_out.result = "Ok" =>
        IF sel_in.prefer_hardware
        THEN sel_out.pass = (IF FirstActivated(sel_in.hardware) /= 0
                             THEN "hardware" ELSE "sync")
        ELSE sel_out.pass = "sync"


\* C28: in the async variant ProcessInput is called only for a NeedInput
\* event taken by encode(), and between calls every NeedInput event taken
\* has had its ProcessInput.
C28_NeedInputAnsweredOnce ==
    m_async =>
        /\ m_inputs <= m_need_taken
        /\ m_pc = "idle" => m_need_taken = m_inputs

\* C29: while encode() waits for NeedInput, taking an event of another type
\* leaves it waiting with no input submitted, and taking NeedInput submits
\* the input.
C29_OtherEventsIgnoredInWait ==
    [][(/\ m_pc = "wait_input"
        /\ m_events /= <<>>
        /\ m_events' = Tail(m_events)
        /\ m_emitted' = m_emitted)
       => IF Head(m_events) = "NeedInput"
          THEN m_inputs' = m_inputs + 1
          ELSE m_pc' = "wait_input" /\ m_inputs' = m_inputs]_vars

\* C30: a flush() called when the last call was a flush() of the started
\* encoder sends no drain command, returns no unit and returns at once.
C30_SecondFlushDoesNothing ==
    [][(m_pc = "idle" /\ m_last = "flush" /\ m_flushes' = m_flushes + 1)
       => /\ m_drains' = m_drains
          /\ m_units' = 0
          /\ m_pc' = "idle"]_vars


\* C31: nothing is sent on the signaling channel while the thread waits for
\* the JoinResponse; what is sent begins with AddTrack, Offer, Trickle, none
\* of the three is sent again, and a Leave is followed by no other message.
C31_SignalingOrder ==
    /\ t_pc = "join" => sig_tx = <<>>
    /\ sig_tx /= <<>> =>
          /\ Len(sig_tx) >= 3
          /\ SubSeq(sig_tx, 1, 3) = <<"AddTrack", "Offer", "Trickle">>
          /\ Count(sig_tx, "AddTrack") = 1
          /\ Count(sig_tx, "Offer") = 1
          /\ Count(sig_tx, "Trickle") = 1
    /\ \A i \in 1 .. Len(sig_tx) : sig_tx[i] = "Leave" => i = Len(sig_tx)

\* C35: the LeaveRequest is on the signaling channel at most once.
C35_LeaveAtMostOnce ==
    Count(sig_tx, "Leave") <= 1


\* C32: once encode_publish_thread has returned, MediaEngine::is_running()
\* is false.
C32_ExitedThreadNotRunning ==
    ThreadReturned => ~IsRunning(stop_flag)


\* C33: when a start_screen_share call that found a stopped session in the
\* ENGINE slot starts the workers of its new session, the encode/publish
\* thread of the stopped session has already finished.
C33_NewWorkersAfterOldFinished ==
    [][\A c \in Calls :
          (/\ h_thread[c] /= "live"
           /\ h_thread'[c] = "live"
           /\ call_seen[c] /= NoSession)
          => h_thread[call_seen[c]] /= "live"]_vars


\* C34: when start_screen_share has returned the error of the first-frame
\* timeout or of the transport connect, the capture it started has been
\* stopped or told to stop, and no audio or transport thread of the attempt
\* is running.
C34_FailedStartStopsCapture ==
    (s_pc = "returned" /\ s_result \in {NoFrameError, "Transport"}) =>
        /\ cap_state /= "running" \/ cap_stop_flag
        /\ audio_pc = "off"
        /\ t_pc \in {"none", "done"}


\* C36: when the transport thread has returned without LiveKitTransport::stop()
\* having been called and without an ICE disconnect, while the encode/publish
\* thread is in its loop, the session stop flag is eventually set and the
\* loop is left.
C36_TransportExitStopsSession ==
    (TransportReturned /\ t_stop_calls = 0 /\ ~ice_disc_seen /\ InLoop)
        ~> (~IsRunning(stop_flag) /\ ~InLoop)


\* C37: a unit sent by the call that took its frame (total_frames is what it
\* was when the frame was submitted) has its RTP timestamp computed from the
\* frame index its sample time was computed from: total_frames of the call
\* equals frame_count of the frame.
C37_RtpIndexIsPtsIndex ==
    \A i \in 1 .. Len(sent) :
        sent[i].idx = sent[i].src => sent[i].pts = sent[i].idx


\* C39: no unit the encoder has produced is lost: in every step in which no
\* encode call fails, the units held by the encoder plus the units handed to
\* send_video grow by exactly the inputs the encoder took, so what the
\* encoder releases (in encode_frame or in the flush after the loop) is sent.
C39_EveryUnitSent ==
    [][enc_errors' = enc_errors
         => Len(sent') + Len(enc_held')
              = Len(sent) + Len(enc_held) + (enc_inputs' - enc_inputs)]_vars


\* C38: for every frame uploaded into the BGRA staging texture, the upload
\* box (0,0)-(frame.width, frame.height) lies within the texture's extent
\* (the session's width and height), also when a later frame is larger than
\* the session's first frame.
C38_UploadBoxWithinTexture ==
    up_box /= NoDims =>
        /\ ~NumLess(Halves(up_tex[1]), Halves(up_box[1]))
        /\ ~NumLess(Halves(up_tex[2]), Halves(up_box[2]))


\* C40: a start() of NativeCapture that returns an error for the source
\* ("Invalid source_id format" or "Source not found") leaves the capture
\* state as it was: running stays false and no capture thread is made; and
\* the start() that follows such an error is not rejected with "Capture
\* already running".
C40_FailedStartLeavesState ==
    [][nc_starts' = nc_starts + 1 =>
          /\ nc_result' \in {NcInvalidFormat, NcNotFound} =>
                /\ nc_running' = nc_running
                /\ nc_handle' = nc_handle
                /\ nc_thread' = nc_thread
          /\ nc_result \in {NcInvalidFormat, NcNotFound} =>
                nc_result' /= NcAlreadyRunning]_vars

====
